---- MODULE Spec2Model ----
(***************************************************************************)
(* A model of the PET emulator core of pet-emulator-enhanced.py: the 6502  *)
(* CPU (CPU6502), the bus (Memory), the video buffer (VideoRAM), the       *)
(* keyboard matrix (PETKeyboard), the 6522 (VIA) and the wiring of PET.    *)
(*                                                                         *)
(* Python integers are unbounded, so registers are modelled as integers    *)
(* and every mask (& 0xFF, & 0xFFFF) appears exactly where the source has  *)
(* one.  The 64 KiB bytearray, the ROM images and the video bytearray are  *)
(* kept sparsely (see Get and Put).                                        *)
(***************************************************************************)
EXTENDS Integers, Sequences, FiniteSets, TLC

VARIABLES
    cpu,                    \* CPU6502: registers, flags, cycle counters, pending lines
    ram,                    \* Memory.ram
    roms,                   \* Memory.roms: the overlays in insertion order
    io_mapped,              \* TRUE once PET._setup_memory_map registered the I/O handlers
    video_ram,              \* VideoRAM: memory and dirty
    via1, via2,             \* VIA #1 (keyboard) and VIA #2
    keyboard,               \* PETKeyboard.matrix
    current_keyboard_row,   \* PET.current_keyboard_row
    hist,                   \* observation: one record per step taken so far
    bus,                    \* observation: the last direct call of a Memory or CPU method
    pet,                    \* PET: running and debug_mode
    frame                   \* PET.run_frame: where the call is, and cycles_this_frame

vars == <<cpu, ram, roms, io_mapped, video_ram, via1, via2, keyboard,
          current_keyboard_row, hist, bus, pet, frame>>

(***************************************************************************)
(* Python's integer operators on non-negative integers.                    *)
(***************************************************************************)
RECURSIVE BitAnd(_, _)
BitAnd(a, b) ==
    IF a = 0 \/ b = 0 THEN 0
    ELSE (a % 2) * (b % 2) + 2 * BitAnd(a \div 2, b \div 2)

RECURSIVE BitOr(_, _)
BitOr(a, b) ==
    IF a = 0 THEN b
    ELSE IF b = 0 THEN a
    ELSE (IF a % 2 = 1 \/ b % 2 = 1 THEN 1 ELSE 0) + 2 * BitOr(a \div 2, b \div 2)

RECURSIVE BitXor(_, _)
BitXor(a, b) ==
    IF a = 0 THEN b
    ELSE IF b = 0 THEN a
    ELSE ((a + b) % 2) + 2 * BitXor(a \div 2, b \div 2)

\* x & ~mask, for non-negative x and mask
AndNot(x, mask) == x - BitAnd(x, mask)

\* (x >> k) & 1
Bit(x, k) == (x \div (2 ^ k)) % 2

Byte == 0 .. 255

(***************************************************************************)
(* Byte arrays (bytearray, bytes), kept sparsely: the byte most cells hold *)
(* (fill) and a function over the indices whose byte is not the fill.      *)
(***************************************************************************)
NoBytes == [i \in {} |-> 0]

Filled(fill) == [fill |-> fill, bytes |-> NoBytes]

Get(arr, i) == IF i \in DOMAIN arr.bytes THEN arr.bytes[i] ELSE arr.fill

Put(arr, i, v) ==
    IF v = arr.fill
    THEN [arr EXCEPT !.bytes = [j \in (DOMAIN arr.bytes) \ {i} |-> arr.bytes[j]]]
    ELSE [arr EXCEPT !.bytes = [j \in (DOMAIN arr.bytes) \cup {i} |->
                                    IF j = i THEN v ELSE arr.bytes[j]]]

RECURSIVE PutAll(_, _)
\* the array after the writes <<index, byte>> of a sequence, in order
PutAll(arr, writes) ==
    IF writes = <<>> THEN arr
    ELSE PutAll(Put(arr, Head(writes)[1], Head(writes)[2]), Tail(writes))

(***************************************************************************)
(* VideoRAM                                                                *)
(***************************************************************************)
VideoWidth == 40
VideoHeight == 25
VideoSize == VideoWidth * VideoHeight

\* VideoRAM.__init__: a zeroed bytearray, dirty
VideoRAM_init == [memory |-> Filled(0), dirty |-> TRUE]

VideoRAM_read(v, addr) ==
    IF 0 <= addr /\ addr < VideoSize THEN Get(v.memory, addr) ELSE 0

\* VideoRAM.write setting dirty on every in-range write
VideoRAM_write_always_dirty(v, addr, value) ==
    IF 0 <= addr /\ addr < VideoSize
    THEN [v EXCEPT !.memory = Put(v.memory, addr, value), !.dirty = TRUE]
    ELSE v

VideoRAM_write(v, addr, value) ==
    IF 0 <= addr /\ addr < VideoSize
    THEN IF Get(v.memory, addr) # value
         THEN [v EXCEPT !.memory = Put(v.memory, addr, value), !.dirty = TRUE]
         ELSE v
    ELSE v

VideoRAM_clear(v) == [memory |-> Filled(32), dirty |-> TRUE]

(***************************************************************************)
(* PETKeyboard                                                             *)
(***************************************************************************)
KeyboardRows == 10

PETKeyboard_init == [r \in 0 .. KeyboardRows - 1 |-> 255]

read_row(matrix, row) ==
    IF 0 <= row /\ row < KeyboardRows THEN matrix[row] ELSE 255

\* PETKeyboard._set_key on a (row, col) pair
set_key(matrix, row, col, is_down) ==
    IF is_down
    THEN [matrix EXCEPT ![row] = AndNot(@, 2 ^ col)]
    ELSE [matrix EXCEPT ![row] = BitOr(@, 2 ^ col)]

(***************************************************************************)
(* VIA                                                                     *)
(***************************************************************************)
VIA_init ==
    [registers |-> [r \in 0 .. 15 |-> 0],
     port_a |-> 255, port_b |-> 255, ddr_a |-> 0, ddr_b |-> 0,
     timer1_counter |-> 0, timer1_latch |-> 0, timer2_counter |-> 0,
     shift_register |-> 0, irq_status |-> 0, irq_enable |-> 0,
     read_port_a |-> FALSE, write_port_a |-> FALSE,
     read_port_b |-> FALSE, write_port_b |-> FALSE]

\* VIA.set_port_a_handlers(read_func, write_func), both given
set_port_a_handlers(v) == [v EXCEPT !.read_port_a = TRUE, !.write_port_a = TRUE]

\* VIA.read; input_a is what the port-A read callback returns
VIA_read(v, addr, input_a) ==
    LET reg == addr % 16 IN
    CASE reg = 0 ->
            LET input_value == 255 IN
            BitOr(BitAnd(v.port_b, v.ddr_b), AndNot(input_value, v.ddr_b))
      [] reg = 1 ->
            LET input_value == IF v.read_port_a THEN input_a ELSE 255 IN
            BitOr(BitAnd(v.port_a, v.ddr_a), AndNot(input_value, v.ddr_a))
      [] reg = 2 -> v.ddr_b
      [] reg = 3 -> v.ddr_a
      [] reg = 4 -> v.timer1_counter % 256
      [] reg = 5 -> (v.timer1_counter \div 256) % 256
      [] reg = 6 -> v.timer1_latch % 256
      [] reg = 7 -> (v.timer1_latch \div 256) % 256
      [] reg = 8 -> v.timer2_counter % 256
      [] reg = 9 -> (v.timer2_counter \div 256) % 256
      [] reg = 10 -> v.shift_register
      [] reg = 13 -> v.irq_status
      [] reg = 14 -> v.irq_enable
      [] OTHER -> v.registers[reg]

\* VIA.write, the VIA's own state
VIA_write(v, addr, value0) ==
    LET reg == addr % 16
        value == value0 % 256
        w == CASE reg = 0 -> [v EXCEPT !.port_b = value]
               [] reg = 1 -> [v EXCEPT !.port_a = value]
               [] reg = 2 -> [v EXCEPT !.ddr_b = value]
               [] reg = 3 -> [v EXCEPT !.ddr_a = value]
               [] reg = 4 ->
                    [v EXCEPT !.timer1_latch = BitOr(BitAnd(@, 65280), value)]
               [] reg = 5 ->
                    LET latch == BitOr(value * 256, v.timer1_latch % 256) IN
                    [v EXCEPT !.timer1_latch = latch,
                              !.timer1_counter = latch,
                              !.irq_status = AndNot(@, 64)]
               [] reg = 6 ->
                    [v EXCEPT !.timer1_latch = BitOr(BitAnd(@, 65280), value)]
               [] reg = 7 ->
                    [v EXCEPT !.timer1_latch = BitOr(value * 256, @ % 256)]
               [] reg = 8 ->
                    [v EXCEPT !.timer2_counter = BitOr(BitAnd(@, 65280), value)]
               [] reg = 9 ->
                    [v EXCEPT !.timer2_counter = BitOr(value * 256, @ % 256),
                              !.irq_status = AndNot(@, 32)]
               [] reg = 10 -> [v EXCEPT !.shift_register = value]
               [] reg = 13 -> [v EXCEPT !.irq_status = AndNot(@, value)]
               [] reg = 14 ->
                    IF BitAnd(value, 128) # 0
                    THEN [v EXCEPT !.irq_enable = BitOr(@, value % 128)]
                    ELSE [v EXCEPT !.irq_enable = AndNot(@, value % 128)]
               [] OTHER -> v
    IN [w EXCEPT !.registers[reg] = value]

\* VIA.update_timers, Timer 1 stopping at 0 like Timer 2
update_timer1_one_shot(v, cycles) ==
    IF v.timer1_counter > 0
    THEN IF v.timer1_counter <= cycles
         THEN [v EXCEPT !.timer1_counter = 0,
                        !.irq_status = BitOr(@, 64)]
         ELSE [v EXCEPT !.timer1_counter = @ - cycles]
    ELSE v

\* VIA.update_timers, Timer 1: the counter after the call
update_timer1(v, cycles) ==
    IF v.timer1_counter > 0
    THEN IF v.timer1_counter <= cycles
         THEN [v EXCEPT !.timer1_counter = v.timer1_latch,
                        !.irq_status = BitOr(@, 64)]
         ELSE [v EXCEPT !.timer1_counter = @ - cycles]
    ELSE v

\* VIA.update_timers, Timer 1: irq_triggered = True
timer1_triggers(v, cycles) ==
    /\ v.timer1_counter > 0
    /\ v.timer1_counter <= cycles
    /\ BitAnd(v.irq_enable, 64) # 0

\* VIA.update_timers, Timer 2 reloading itself like Timer 1
update_timer2_free_running(v, cycles) ==
    IF v.timer2_counter > 0
    THEN IF v.timer2_counter <= cycles
         THEN [v EXCEPT !.irq_status = BitOr(@, 32)]
         ELSE [v EXCEPT !.timer2_counter = @ - cycles]
    ELSE v

\* VIA.update_timers, Timer 2 counting down without the test for expiry
update_timer2_counts_on(v, cycles) ==
    IF v.timer2_counter > 0
    THEN [v EXCEPT !.timer2_counter = @ - cycles]
    ELSE v

\* VIA.update_timers, Timer 2
update_timer2(v, cycles) ==
    IF v.timer2_counter > 0
    THEN IF v.timer2_counter <= cycles
         THEN [v EXCEPT !.timer2_counter = 0,
                        !.irq_status = BitOr(@, 32)]
         ELSE [v EXCEPT !.timer2_counter = @ - cycles]
    ELSE v

\* VIA.update_timers, Timer 2: irq_triggered = True
timer2_triggers(v, cycles) ==
    /\ v.timer2_counter > 0
    /\ v.timer2_counter <= cycles
    /\ BitAnd(v.irq_enable, 32) # 0

\* VIA.update_timers: the VIA after the call
VIA_update_timers(v, cycles) == update_timer2(update_timer1(v, cycles), cycles)

\* update_timers returning whether an enabled flag is set after the call
update_timers_returns_level(v, cycles) ==
    BitAnd(VIA_update_timers(v, cycles).irq_status, v.irq_enable) # 0

\* VIA.update_timers: the value returned
update_timers_returns(v, cycles) ==
    timer1_triggers(v, cycles) \/ timer2_triggers(v, cycles)

\* VIA.write on port A: what the write callback receives
VIA_port_a_output(v, value0) == BitAnd(value0 % 256, v.ddr_a)

\* PET._select_keyboard_row
select_keyboard_row(value) == value % 8

(***************************************************************************)
(* Memory                                                                  *)
(***************************************************************************)
MemorySize == 65536

\* Memory.__init__: self.ram = bytearray(size)
Memory_ram_init == Filled(0)

\* An image handed to load_rom: its length and its bytes
Image(size, fill, writes) == [size |-> size, data |-> PutAll(Filled(fill), writes)]

RECURSIVE rom_position(_, _, _)
\* the position of key addr in the dict roms, 0 when it is no key
rom_position(rs, addr, i) ==
    IF i > Len(rs) THEN 0
    ELSE IF rs[i].addr = addr THEN i
    ELSE rom_position(rs, addr, i + 1)

\* Memory.load_rom: self.roms[addr] = (bytes(data), size)
load_rom_roms(rs, data, addr) ==
    LET entry == [addr |-> addr, data |-> data.data, size |-> data.size]
        i == rom_position(rs, addr, 1)
    IN IF i = 0 THEN Append(rs, entry) ELSE [rs EXCEPT ![i] = entry]

\* Memory.load_rom: the copy of the image into the RAM array
load_rom_ram(r, data, addr) ==
    LET covered(a) == addr <= a /\ a < addr + data.size /\ a < MemorySize
        image(a) == Get(data.data, a - addr)
        copied == IF data.data.fill = r.fill
                  THEN {addr + i : i \in DOMAIN data.data.bytes}
                  ELSE addr .. (addr + data.size - 1)
        keys == {a \in DOMAIN r.bytes : ~covered(a)}
                \cup {a \in copied : covered(a) /\ image(a) # r.fill}
    IN [r EXCEPT !.bytes = [a \in keys |-> IF covered(a) THEN image(a) ELSE r.bytes[a]]]

VideoBase == 32768
Via1Base == 59408
Via2Base == 59424

\* The keys of Memory.io_read_handlers / io_write_handlers: PET._setup_memory_map
\* registers a read and a write handler at each address of the three ranges
io_read_handlers ==
    IF io_mapped
    THEN (VideoBase .. VideoBase + 999) \cup (Via1Base .. Via1Base + 15)
         \cup (Via2Base .. Via2Base + 15)
    ELSE {}

io_write_handlers ==
    IF io_mapped
    THEN (VideoBase .. VideoBase + 999) \cup (Via1Base .. Via1Base + 15)
         \cup (Via2Base .. Via2Base + 15)
    ELSE {}

RECURSIVE rom_lookup(_, _, _)
\* the loop of Memory.read / Memory.write over self.roms.items(): the first
\* overlay, in insertion order, that contains addr (0: none)
rom_lookup(rs, addr, i) ==
    IF i > Len(rs) THEN 0
    ELSE IF rs[i].addr <= addr /\ addr < rs[i].addr + rs[i].size THEN i
    ELSE rom_lookup(rs, addr, i + 1)

\* The machine an operation works on: the CPU, the memory and the devices
\* behind the memory handlers, together with the locals of the Python
\* methods (val: the byte last read; lo: a low byte kept while the high byte
\* is read; addr, page_crossed: what an addressing mode returns) and the bus
\* accesses made so far (log).
Machine ==
    [cpu |-> cpu, ram |-> ram, video_ram |-> video_ram, via1 |-> via1, via2 |-> via2,
     current_keyboard_row |-> current_keyboard_row,
     val |-> 0, lo |-> 0, addr |-> 0, page_crossed |-> FALSE, log |-> <<>>]

\* the read handlers PET._setup_memory_map registers (lambdas on video_ram, via1, via2)
io_read(m, addr) ==
    IF addr >= VideoBase /\ addr < VideoBase + 1000
    THEN VideoRAM_read(m.video_ram, addr - VideoBase)
    ELSE IF addr >= Via1Base /\ addr < Via1Base + 16
    THEN VIA_read(m.via1, addr - Via1Base, read_row(keyboard, m.current_keyboard_row))
    ELSE VIA_read(m.via2, addr - Via2Base, 255)

\* the write handlers PET._setup_memory_map registers
io_write(m, addr, value) ==
    IF addr >= VideoBase /\ addr < VideoBase + 1000
    THEN [m EXCEPT !.video_ram = VideoRAM_write(@, addr - VideoBase, value)]
    ELSE IF addr >= Via1Base /\ addr < Via1Base + 16
    THEN [m EXCEPT !.via1 = VIA_write(@, addr - Via1Base, value),
                   !.current_keyboard_row =
                       IF (addr - Via1Base) % 16 = 1 /\ m.via1.write_port_a
                       THEN select_keyboard_row(VIA_port_a_output(m.via1, value))
                       ELSE @]
    ELSE [m EXCEPT !.via2 = VIA_write(@, addr - Via2Base, value)]

\* Memory.read with the ROM loop ahead of the I/O handler test
Memory_read_rom_first(m, addr0) ==
    LET addr == addr0 % 65536
        i == rom_lookup(roms, addr, 1)
    IN IF i # 0 THEN Get(roms[i].data, addr - roms[i].addr)
       ELSE IF addr \in io_read_handlers THEN io_read(m, addr)
       ELSE Get(m.ram, addr)

\* Memory.read
Memory_read(m, addr0) ==
    LET addr == addr0 % 65536
        i == rom_lookup(roms, addr, 1)
    IN IF addr \in io_read_handlers THEN io_read(m, addr)
       ELSE IF i # 0 THEN Get(roms[i].data, addr - roms[i].addr)
       ELSE Get(m.ram, addr)

\* Memory.write without the ROM loop
Memory_write_through_rom(m, addr0, value0) ==
    LET addr == addr0 % 65536
        value == value0 % 256
    IN IF addr \in io_write_handlers THEN io_write(m, addr, value)
       ELSE [m EXCEPT !.ram = Put(@, addr, value)]

\* Memory.write
Memory_write(m, addr0, value0) ==
    LET addr == addr0 % 65536
        value == value0 % 256
    IN IF addr \in io_write_handlers THEN io_write(m, addr, value)
       ELSE IF rom_lookup(roms, addr, 1) # 0 THEN m
       ELSE [m EXCEPT !.ram = Put(@, addr, value)]

\* the byte v came back from memory.read(addr)
returned(m, addr, v) ==
    [m EXCEPT !.val = v, !.log = Append(@, <<"R", addr % 65536, v>>)]

\* memory.read(addr) as the CPU calls it: the byte is returned in val
rd(m, addr) == returned(m, addr, Memory_read(m, addr))

\* memory.write(addr, value) as the CPU calls it
wr(m, addr, value) ==
    [Memory_write(m, addr, value) EXCEPT
        !.log = Append(@, <<"W", addr % 65536, value % 256>>)]

(***************************************************************************)
(* CPU6502: state, status byte, addressing modes                           *)
(***************************************************************************)
CPU6502_init ==
    [A |-> 0, X |-> 0, Y |-> 0, PC |-> 0, SP |-> 255,
     C |-> 0, Z |-> 0, I |-> 0, D |-> 0, B |-> 0, V |-> 0, N |-> 0,
     cycles |-> 0, total_cycles |-> 0,
     irq_pending |-> FALSE, nmi_pending |-> FALSE]

\* get_status with the "| (1 << 5)" term left out
get_status_without_bit5(c) ==
    BitOr(c.C, BitOr(c.Z * 2, BitOr(c.I * 4, BitOr(c.D * 8,
        BitOr(c.V * 64, c.N * 128)))))

\* CPU6502.get_status
get_status(c) ==
    BitOr(c.C, BitOr(c.Z * 2, BitOr(c.I * 4, BitOr(c.D * 8,
        BitOr(32, BitOr(c.V * 64, c.N * 128))))))

set_status(c, value) ==
    [c EXCEPT !.C = value % 2,
              !.Z = Bit(value, 1),
              !.I = Bit(value, 2),
              !.D = Bit(value, 3),
              !.B = Bit(value, 4),
              !.V = Bit(value, 6),
              !.N = Bit(value, 7)]

update_ZN(c, value) ==
    [c EXCEPT !.Z = IF value % 256 = 0 THEN 1 ELSE 0,
              !.N = IF BitAnd(value, 128) # 0 THEN 1 ELSE 0]

\* memory.read(self.PC); self.PC += 1
fetch(m) == [rd(m, m.cpu.PC) EXCEPT !.cpu.PC = @ + 1]

\* low = <the byte just read>
low(r) == [r EXCEPT !.lo = r.val]

\* (high << 8) | low, high being the byte just read
word(r) == [r EXCEPT !.addr = BitOr(r.val * 256, r.lo)]

\* the two bytes of a zero-page pointer: memory.read(ptr & 0xFF) and
\* memory.read((ptr + 1) & 0xFF)
zeropage_word(z) == word(rd(low(rd(z, z.addr % 256)), (z.addr + 1) % 256))

immediate(m) == fetch(m)

\* the byte just read, plus an index, as a zero-page address
zeropage_indexed(r, index) == [r EXCEPT !.addr = (r.val + index) % 256]

zeropage(m) == zeropage_indexed(fetch(m), 0)

zeropageX(m) == zeropage_indexed(fetch(m), m.cpu.X)

zeropageY(m) == zeropage_indexed(fetch(m), m.cpu.Y)

absolute(m) == word(fetch(low(fetch(m))))

\* the tail shared by absoluteX, absoluteY and indirectY: base + index
indexed(b, index, check_page_cross) ==
    [b EXCEPT !.addr = (b.addr + index) % 65536,
              !.page_crossed =
                  IF check_page_cross
                  THEN BitAnd(b.addr, 65280) # BitAnd((b.addr + index) % 65536, 65280)
                  ELSE FALSE]

absoluteX(m, check_page_cross) == indexed(absolute(m), m.cpu.X, check_page_cross)

absoluteY(m, check_page_cross) == indexed(absolute(m), m.cpu.Y, check_page_cross)

\* indirect without the page-boundary case: the high byte always from
\* addr_ptr + 1
indirect_word_next_page(p) == word(rd(low(rd(p, p.addr)), p.addr + 1))

\* indirect, once addr_ptr is known: the pointer's high byte comes from the
\* start of the page when the pointer is the last byte of a page
indirect_word(p) ==
    word(IF p.addr % 256 = 255
         THEN rd(low(rd(p, p.addr)), BitAnd(p.addr, 65280))
         ELSE rd(low(rd(p, p.addr)), p.addr + 1))

indirect(m) == indirect_word(absolute(m))

indirectX(m) == zeropage_word(zeropageX(m))

indirectY(m, check_page_cross) ==
    indexed(zeropage_word(zeropage(m)), m.cpu.Y, check_page_cross)

(***************************************************************************)
(* CPU6502: the instruction table and the instructions                     *)
(***************************************************************************)
\* CPU6502._init_instruction_table: opcode -> handler, named <<mnemonic, mode>>
instructions ==
    0 :> <<"BRK", "implied">> @@ 1 :> <<"ORA", "indirectX">> @@ 5 :> <<"ORA", "zeropage">> @@
    6 :> <<"ASL", "zeropage">> @@ 8 :> <<"PHP", "implied">> @@ 9 :> <<"ORA", "immediate">> @@
    10 :> <<"ASL", "accumulator">> @@ 13 :> <<"ORA", "absolute">> @@ 14 :> <<"ASL", "absolute">> @@
    16 :> <<"BPL", "implied">> @@ 17 :> <<"ORA", "indirectY">> @@ 21 :> <<"ORA", "zeropageX">> @@
    22 :> <<"ASL", "zeropageX">> @@ 24 :> <<"CLC", "implied">> @@ 25 :> <<"ORA", "absoluteY">> @@
    29 :> <<"ORA", "absoluteX">> @@ 30 :> <<"ASL", "absoluteX">> @@ 32 :> <<"JSR", "absolute">> @@
    33 :> <<"AND", "indirectX">> @@ 36 :> <<"BIT", "zeropage">> @@ 37 :> <<"AND", "zeropage">> @@
    38 :> <<"ROL", "zeropage">> @@ 40 :> <<"PLP", "implied">> @@ 41 :> <<"AND", "immediate">> @@
    42 :> <<"ROL", "accumulator">> @@ 44 :> <<"BIT", "absolute">> @@ 45 :> <<"AND", "absolute">> @@
    46 :> <<"ROL", "absolute">> @@ 48 :> <<"BMI", "implied">> @@ 49 :> <<"AND", "indirectY">> @@
    53 :> <<"AND", "zeropageX">> @@ 54 :> <<"ROL", "zeropageX">> @@ 56 :> <<"SEC", "implied">> @@
    57 :> <<"AND", "absoluteY">> @@ 61 :> <<"AND", "absoluteX">> @@ 62 :> <<"ROL", "absoluteX">> @@
    64 :> <<"RTI", "implied">> @@ 65 :> <<"EOR", "indirectX">> @@ 69 :> <<"EOR", "zeropage">> @@
    70 :> <<"LSR", "zeropage">> @@ 72 :> <<"PHA", "implied">> @@ 73 :> <<"EOR", "immediate">> @@
    74 :> <<"LSR", "accumulator">> @@ 76 :> <<"JMP", "absolute">> @@ 77 :> <<"EOR", "absolute">> @@
    78 :> <<"LSR", "absolute">> @@ 80 :> <<"BVC", "implied">> @@ 81 :> <<"EOR", "indirectY">> @@
    85 :> <<"EOR", "zeropageX">> @@ 86 :> <<"LSR", "zeropageX">> @@ 88 :> <<"CLI", "implied">> @@
    89 :> <<"EOR", "absoluteY">> @@ 93 :> <<"EOR", "absoluteX">> @@ 94 :> <<"LSR", "absoluteX">> @@
    96 :> <<"RTS", "implied">> @@ 97 :> <<"ADC", "indirectX">> @@ 101 :> <<"ADC", "zeropage">> @@
    102 :> <<"ROR", "zeropage">> @@ 104 :> <<"PLA", "implied">> @@ 105 :> <<"ADC", "immediate">> @@
    106 :> <<"ROR", "accumulator">> @@ 108 :> <<"JMP", "indirect">> @@ 109 :> <<"ADC", "absolute">> @@
    110 :> <<"ROR", "absolute">> @@ 112 :> <<"BVS", "implied">> @@ 113 :> <<"ADC", "indirectY">> @@
    117 :> <<"ADC", "zeropageX">> @@ 118 :> <<"ROR", "zeropageX">> @@ 120 :> <<"SEI", "implied">> @@
    121 :> <<"ADC", "absoluteY">> @@ 125 :> <<"ADC", "absoluteX">> @@ 126 :> <<"ROR", "absoluteX">> @@
    129 :> <<"STA", "indirectX">> @@ 132 :> <<"STY", "zeropage">> @@ 133 :> <<"STA", "zeropage">> @@
    134 :> <<"STX", "zeropage">> @@ 136 :> <<"DEY", "implied">> @@ 138 :> <<"TXA", "implied">> @@
    140 :> <<"STY", "absolute">> @@ 141 :> <<"STA", "absolute">> @@ 142 :> <<"STX", "absolute">> @@
    144 :> <<"BCC", "implied">> @@ 145 :> <<"STA", "indirectY">> @@ 148 :> <<"STY", "zeropageX">> @@
    149 :> <<"STA", "zeropageX">> @@ 150 :> <<"STX", "zeropageY">> @@ 152 :> <<"TYA", "implied">> @@
    153 :> <<"STA", "absoluteY">> @@ 154 :> <<"TXS", "implied">> @@ 157 :> <<"STA", "absoluteX">> @@
    160 :> <<"LDY", "immediate">> @@ 161 :> <<"LDA", "indirectX">> @@ 162 :> <<"LDX", "immediate">> @@
    164 :> <<"LDY", "zeropage">> @@ 165 :> <<"LDA", "zeropage">> @@ 166 :> <<"LDX", "zeropage">> @@
    168 :> <<"TAY", "implied">> @@ 169 :> <<"LDA", "immediate">> @@ 170 :> <<"TAX", "implied">> @@
    172 :> <<"LDY", "absolute">> @@ 173 :> <<"LDA", "absolute">> @@ 174 :> <<"LDX", "absolute">> @@
    176 :> <<"BCS", "implied">> @@ 177 :> <<"LDA", "indirectY">> @@ 180 :> <<"LDY", "zeropageX">> @@
    181 :> <<"LDA", "zeropageX">> @@ 182 :> <<"LDX", "zeropageY">> @@ 184 :> <<"CLV", "implied">> @@
    185 :> <<"LDA", "absoluteY">> @@ 186 :> <<"TSX", "implied">> @@ 188 :> <<"LDY", "absoluteX">> @@
    189 :> <<"LDA", "absoluteX">> @@ 190 :> <<"LDX", "absoluteY">> @@ 192 :> <<"CPY", "immediate">> @@
    193 :> <<"CMP", "indirectX">> @@ 196 :> <<"CPY", "zeropage">> @@ 197 :> <<"CMP", "zeropage">> @@
    198 :> <<"DEC", "zeropage">> @@ 200 :> <<"INY", "implied">> @@ 201 :> <<"CMP", "immediate">> @@
    202 :> <<"DEX", "implied">> @@ 204 :> <<"CPY", "absolute">> @@ 205 :> <<"CMP", "absolute">> @@
    206 :> <<"DEC", "absolute">> @@ 208 :> <<"BNE", "implied">> @@ 209 :> <<"CMP", "indirectY">> @@
    213 :> <<"CMP", "zeropageX">> @@ 214 :> <<"DEC", "zeropageX">> @@ 216 :> <<"CLD", "implied">> @@
    217 :> <<"CMP", "absoluteY">> @@ 221 :> <<"CMP", "absoluteX">> @@ 222 :> <<"DEC", "absoluteX">> @@
    224 :> <<"CPX", "immediate">> @@ 225 :> <<"SBC", "indirectX">> @@ 228 :> <<"CPX", "zeropage">> @@
    229 :> <<"SBC", "zeropage">> @@ 230 :> <<"INC", "zeropage">> @@ 232 :> <<"INX", "implied">> @@
    233 :> <<"SBC", "immediate">> @@ 234 :> <<"NOP", "implied">> @@ 236 :> <<"CPX", "absolute">> @@
    237 :> <<"SBC", "absolute">> @@ 238 :> <<"INC", "absolute">> @@ 240 :> <<"BEQ", "implied">> @@
    241 :> <<"SBC", "indirectY">> @@ 245 :> <<"SBC", "zeropageX">> @@ 246 :> <<"INC", "zeropageX">> @@
    248 :> <<"SED", "implied">> @@ 249 :> <<"SBC", "absoluteY">> @@ 253 :> <<"SBC", "absoluteX">> @@
    254 :> <<"INC", "absoluteX">>

cyc(m, n) == [m EXCEPT !.cpu.cycles = @ + n]

\* the address an instruction handler gets from its addressing-mode method
resolve(m, mode, check_page_cross) ==
    CASE mode = "zeropage" -> zeropage(m)
      [] mode = "zeropageX" -> zeropageX(m)
      [] mode = "zeropageY" -> zeropageY(m)
      [] mode = "absolute" -> absolute(m)
      [] mode = "absoluteX" -> absoluteX(m, check_page_cross)
      [] mode = "absoluteY" -> absoluteY(m, check_page_cross)
      [] mode = "indirectX" -> indirectX(m)
      [] mode = "indirectY" -> indirectY(m, check_page_cross)

\* memory.read(addr), addr being what the addressing mode returned
read_addr(a) == rd(a, a.addr)

\* the operand byte of a reading instruction: immediate, or memory.read(addr)
operand(m, mode) ==
    IF mode = "immediate" THEN immediate(m)
    ELSE read_addr(resolve(m, mode, TRUE))

\* the reading handlers' cycles without the page-cross cycle
read_cycles_flat(mode, page_crossed) ==
    CASE mode = "immediate" -> 2
      [] mode = "zeropage" -> 3
      [] mode \in {"zeropageX", "zeropageY"} -> 4
      [] mode = "absolute" -> 4
      [] mode \in {"absoluteX", "absoluteY"} -> 4
      [] mode = "indirectX" -> 6
      [] mode = "indirectY" -> 5

\* self.cycles += ... of the handlers that read their operand
read_cycles(mode, page_crossed) ==
    CASE mode = "immediate" -> 2
      [] mode = "zeropage" -> 3
      [] mode \in {"zeropageX", "zeropageY"} -> 4
      [] mode = "absolute" -> 4
      [] mode \in {"absoluteX", "absoluteY"} -> 4 + (IF page_crossed THEN 1 ELSE 0)
      [] mode = "indirectX" -> 6
      [] mode = "indirectY" -> 5 + (IF page_crossed THEN 1 ELSE 0)

\* the STA/STX/STY handlers charged like the reading handlers on one page
store_cycles_as_reads(mode) == read_cycles(mode, FALSE)

\* self.cycles += ... of the STA/STX/STY handlers
store_cycles(mode) ==
    CASE mode = "zeropage" -> 3
      [] mode \in {"zeropageX", "zeropageY"} -> 4
      [] mode = "absolute" -> 4
      [] mode \in {"absoluteX", "absoluteY"} -> 5
      [] mode = "indirectX" -> 6
      [] mode = "indirectY" -> 6

\* self.cycles += ... of the INC/DEC/ASL/LSR/ROL/ROR handlers
rmw_cycles(mode) ==
    CASE mode = "accumulator" -> 2
      [] mode = "zeropage" -> 5
      [] mode = "zeropageX" -> 6
      [] mode = "absolute" -> 6
      [] mode = "absoluteX" -> 7

\* register = value; update_ZN(value), value being the byte just read
load(r, reg) == [r EXCEPT !.cpu = update_ZN([@ EXCEPT ![reg] = r.val], r.val)]

\* LDA_*, LDX_*, LDY_*, once the operand is read
LD(r, reg, mode) == cyc(load(r, reg), read_cycles(mode, r.page_crossed))

\* self.A &= value, |= value, ^= value
logic_value(op, a, value) ==
    CASE op = "AND" -> BitAnd(a, value)
      [] op = "ORA" -> BitOr(a, value)
      [] op = "EOR" -> BitXor(a, value)

\* AND_*, ORA_*, EOR_*, once the operand is read
LOGIC(r, op, mode) ==
    cyc([r EXCEPT !.cpu = update_ZN([@ EXCEPT !.A = logic_value(op, @, r.val)],
                                    logic_value(op, r.cpu.A, r.val))],
        read_cycles(mode, r.page_crossed))

\* BIT_zeropage, BIT_absolute, once the operand is read
BIT(r, mode) ==
    cyc([r EXCEPT !.cpu.Z = IF BitAnd(r.cpu.A, r.val) = 0 THEN 1 ELSE 0,
                  !.cpu.V = Bit(r.val, 6),
                  !.cpu.N = Bit(r.val, 7)],
        read_cycles(mode, r.page_crossed))

\* _add_with_carry with "self.A = temp & 0xFF" written "self.A = temp"
add_with_carry_unmasked(c, value) ==
    IF c.D # 0
    THEN LET a_lo == c.A % 16
             a_hi == c.A \div 16
             val_lo == value % 16
             val_hi == value \div 16
             sum_lo == a_lo + val_lo + c.C
             result_lo == IF sum_lo > 9 THEN (sum_lo + 6) % 16 ELSE sum_lo
             carry_lo == IF sum_lo > 9 THEN 1 ELSE 0
             sum_hi == a_hi + val_hi + carry_lo
             result_hi == IF sum_hi > 9 THEN (sum_hi + 6) % 16 ELSE sum_hi
             result == BitOr(result_hi * 16, result_lo)
         IN [c EXCEPT !.C = IF sum_hi > 9 THEN 1 ELSE 0,
                      !.Z = IF result % 256 = 0 THEN 1 ELSE 0,
                      !.N = IF BitAnd(result, 128) # 0 THEN 1 ELSE 0,
                      !.V = 0]
    ELSE LET temp == c.A + value + c.C IN
         update_ZN([c EXCEPT !.C = IF temp > 255 THEN 1 ELSE 0,
                             !.V = IF BitAnd(AndNot(BitXor(c.A, temp),
                                                    BitXor(c.A, value)), 128) # 0
                                   THEN 1 ELSE 0,
                             !.A = temp],
                   temp % 256)

\* _add_with_carry taking V in binary mode from the carry out of bit 7
add_with_carry_overflow_as_carry(c, value) ==
    IF c.D # 0
    THEN add_with_carry_unmasked(c, value)
    ELSE LET temp == c.A + value + c.C IN
         update_ZN([c EXCEPT !.C = IF temp > 255 THEN 1 ELSE 0,
                             !.V = IF temp > 255 THEN 1 ELSE 0,
                             !.A = temp % 256],
                   temp % 256)

\* CPU6502._add_with_carry
add_with_carry(c, value) ==
    IF c.D # 0
    THEN LET a_lo == c.A % 16
             a_hi == c.A \div 16
             val_lo == value % 16
             val_hi == value \div 16
             sum_lo == a_lo + val_lo + c.C
             result_lo == IF sum_lo > 9 THEN (sum_lo + 6) % 16 ELSE sum_lo
             carry_lo == IF sum_lo > 9 THEN 1 ELSE 0
             sum_hi == a_hi + val_hi + carry_lo
             result_hi == IF sum_hi > 9 THEN (sum_hi + 6) % 16 ELSE sum_hi
             result == BitOr(result_hi * 16, result_lo)
         IN [c EXCEPT !.C = IF sum_hi > 9 THEN 1 ELSE 0,
                      !.Z = IF result % 256 = 0 THEN 1 ELSE 0,
                      !.N = IF BitAnd(result, 128) # 0 THEN 1 ELSE 0,
                      !.V = 0]
    ELSE LET temp == c.A + value + c.C IN
         update_ZN([c EXCEPT !.C = IF temp > 255 THEN 1 ELSE 0,
                             !.V = IF BitAnd(AndNot(BitXor(c.A, temp),
                                                    BitXor(c.A, value)), 128) # 0
                                   THEN 1 ELSE 0,
                             !.A = temp % 256],
                   temp % 256)

\* _subtract_with_carry negating the operand (two's complement) where it
\* inverts its bits
subtract_with_carry_negated(c, value) ==
    IF c.D # 0
    THEN add_with_carry_unmasked(c, value)
    ELSE add_with_carry(c, (256 - value) % 256)

\* CPU6502._subtract_with_carry
subtract_with_carry(c, value) ==
    IF c.D # 0
    THEN LET a_lo == c.A % 16
             a_hi == c.A \div 16
             val_lo == value % 16
             val_hi == value \div 16
             borrow == 1 - c.C
             diff_lo == a_lo - val_lo - borrow
             result_lo == IF diff_lo < 0 THEN diff_lo + 10 ELSE diff_lo
             borrow_lo == IF diff_lo < 0 THEN 1 ELSE 0
             diff_hi == a_hi - val_hi - borrow_lo
             result_hi == IF diff_hi < 0 THEN diff_hi + 10 ELSE diff_hi
             \* (result_hi << 4) | result_lo, masked to its low byte: the two
             \* nibbles may be negative, and | acts on the two's complement
             result8 == BitOr((result_hi * 16) % 256, result_lo % 256)
         IN [c EXCEPT !.C = IF diff_hi < 0 THEN 0 ELSE 1,
                      !.Z = IF result8 = 0 THEN 1 ELSE 0,
                      !.N = IF BitAnd(result8, 128) # 0 THEN 1 ELSE 0,
                      !.V = 0]
    ELSE add_with_carry(c, BitXor(value, 255))

\* ADC_*, SBC_*, once the operand is read
ARITH(r, op, mode) ==
    cyc([r EXCEPT !.cpu = IF op = "ADC" THEN add_with_carry(@, r.val)
                          ELSE subtract_with_carry(@, r.val)],
        read_cycles(mode, r.page_crossed))

compare(c, reg, value) ==
    LET result == (reg - value) % 256 IN
    [c EXCEPT !.C = IF reg >= value THEN 1 ELSE 0,
              !.Z = IF reg = value THEN 1 ELSE 0,
              !.N = IF BitAnd(result, 128) # 0 THEN 1 ELSE 0]

\* CMP_*, CPX_*, CPY_*, once the operand is read
CP(r, reg, mode) ==
    cyc([r EXCEPT !.cpu = compare(@, r.cpu[reg], r.val)],
        read_cycles(mode, r.page_crossed))

\* STA_*, STX_*, STY_*, once the address is known
ST(a, reg, mode) == cyc(wr(a, a.addr, a.cpu[reg]), store_cycles(mode))

\* the new value and carry of INC, DEC, ASL, LSR, ROL, ROR
rmw_value(op, value, old_carry) ==
    CASE op = "INC" -> [value |-> (value + 1) % 256, C |-> old_carry]
      [] op = "DEC" -> [value |-> (value - 1) % 256, C |-> old_carry]
      [] op = "ASL" -> [value |-> (value * 2) % 256, C |-> Bit(value, 7)]
      [] op = "LSR" -> [value |-> value \div 2, C |-> value % 2]
      [] op = "ROL" -> [value |-> BitOr(value * 2, old_carry) % 256, C |-> Bit(value, 7)]
      [] op = "ROR" -> [value |-> BitOr(value \div 2, old_carry * 128), C |-> value % 2]

\* INC, DEC, ASL, LSR, ROL, ROR on the accumulator
RMW_accumulator(m, op) ==
    LET n == rmw_value(op, m.cpu.A, m.cpu.C) IN
    cyc([m EXCEPT !.cpu = update_ZN([@ EXCEPT !.C = n.C, !.A = n.value], n.value)],
        rmw_cycles("accumulator"))

\* INC_*, DEC_*, ASL_*, LSR_*, ROL_*, ROR_* on memory, once the byte is read
RMW(r, op, mode) ==
    LET n == rmw_value(op, r.val, r.cpu.C) IN
    cyc([wr([r EXCEPT !.cpu.C = n.C], r.addr, n.value) EXCEPT
            !.cpu = update_ZN(@, n.value)],
        rmw_cycles(mode))

\* TAX, TXA, TAY, TYA, TSX (flags updated) and TXS (flags untouched)
TRANSFER(m, from, to) ==
    cyc([m EXCEPT !.cpu = IF to = "SP"
                          THEN [@ EXCEPT !.SP = m.cpu.X]
                          ELSE update_ZN([@ EXCEPT ![to] = m.cpu[from]], m.cpu[from])],
        2)

\* INX, INY, DEX, DEY
INCDEC(m, reg, delta) ==
    LET v == (m.cpu[reg] + delta) % 256 IN
    cyc([m EXCEPT !.cpu = update_ZN([@ EXCEPT ![reg] = v], v)], 2)

\* memory.write(0x100 + self.SP, value); self.SP = (self.SP - 1) & 0xFF
push(m, value) ==
    [wr(m, 256 + m.cpu.SP, value) EXCEPT !.cpu.SP = (@ - 1) % 256]

\* the pull with "& 0xFF" left off the increment
pull_unmasked(m) ==
    LET sp == m.cpu.SP + 1 IN
    rd([m EXCEPT !.cpu.SP = sp], 256 + sp)

\* self.SP = (self.SP + 1) & 0xFF; memory.read(0x100 + self.SP)
pull(m) ==
    LET sp == (m.cpu.SP + 1) % 256 IN
    rd([m EXCEPT !.cpu.SP = sp], 256 + sp)

PHA(m) == cyc(push(m, m.cpu.A), 3)

PLA(m) == cyc(load(pull(m), "A"), 4)

PHP(m) == cyc(push(m, BitOr(get_status(m.cpu), 16)), 3)

\* self.set_status(<the byte just read>)
pulled_status(r) == [r EXCEPT !.cpu = set_status(@, r.val)]

PLP(m) == cyc(pulled_status(pull(m)), 4)

\* self.PC = addr + offset, addr being the word just put together
jump(a, offset) == [a EXCEPT !.cpu.PC = a.addr + offset]

JMP_absolute(m) == cyc(jump(absolute(m), 0), 3)

JMP_indirect(m) == cyc(jump(indirect(m), 0), 5)

\* the two pushes of a 16-bit value: high byte, then low byte
push_word(m, value) == push(push(m, (value \div 256) % 256), value % 256)

\* JSR_absolute, once the target is read: return_addr = self.PC - 1
JSR_call(a) == jump(push_word(a, a.cpu.PC - 1), 0)

JSR_absolute(m) == cyc(JSR_call(absolute(m)), 6)

RTS(m) == cyc(jump(word(pull(low(pull(m)))), 1), 6)

\* _branch applying the offset to the address of the operand byte
branch_from_operand(r, condition) ==
    LET offset == IF BitAnd(r.val, 128) # 0 THEN -(256 - r.val) ELSE r.val
        old_pc == r.cpu.PC
        new_pc == (old_pc - 1 + offset) % 65536
    IN IF condition
       THEN cyc([r EXCEPT !.cpu.PC = new_pc],
                1 + (IF BitAnd(old_pc, 65280) # BitAnd(new_pc, 65280) THEN 1 ELSE 0) + 2)
       ELSE cyc(r, 2)

\* CPU6502._branch, once the offset byte is read
branch(r, condition) ==
    LET offset == IF BitAnd(r.val, 128) # 0 THEN -(256 - r.val) ELSE r.val
        old_pc == r.cpu.PC
        new_pc == (old_pc + offset) % 65536
    IN IF condition
       THEN cyc([r EXCEPT !.cpu.PC = new_pc],
                1 + (IF BitAnd(old_pc, 65280) # BitAnd(new_pc, 65280) THEN 1 ELSE 0) + 2)
       ELSE cyc(r, 2)

\* the conditions BCC .. BVS hand to _branch
branch_condition(c, op) ==
    CASE op = "BCC" -> c.C = 0
      [] op = "BCS" -> c.C = 1
      [] op = "BEQ" -> c.Z = 1
      [] op = "BMI" -> c.N = 1
      [] op = "BNE" -> c.Z = 0
      [] op = "BPL" -> c.N = 0
      [] op = "BVC" -> c.V = 0
      [] op = "BVS" -> c.V = 1

\* CLC, SEC, CLI, SEI, CLV, CLD, SED
FLAG(m, flag, value) == cyc([m EXCEPT !.cpu[flag] = value], 2)

\* the status push with bit 4 always cleared
push_status_without_break(m, brk) == push(m, AndNot(get_status(m.cpu), 16))

\* the status push of BRK (get_status() | 0x10) and of the interrupt
\* handlers (get_status() & ~0x10)
push_status(m, brk) ==
    push(m, IF brk THEN BitOr(get_status(m.cpu), 16)
            ELSE AndNot(get_status(m.cpu), 16))

\* what BRK, _handle_nmi and _handle_irq share: push pc and the status, set
\* I, load PC from the vector
enter(m, pc, brk, vector) ==
    jump(word(rd(low(rd([push_status(push_word(m, pc), brk) EXCEPT !.cpu.I = 1],
                        vector)),
                 vector + 1)),
         0)

\* BRK pushing PC where it pushes PC + 1
BRK_without_signature(m) == cyc(enter(m, m.cpu.PC, TRUE, 65534), 7)

BRK(m) == cyc(enter(m, m.cpu.PC + 1, TRUE, 65534), 7)

RTI(m) == cyc(jump(word(pull(low(pull(pulled_status(pull(m)))))), 0), 6)

NOP(m) == cyc(m, 2)

\* self.instructions[opcode](memory)
execute(m, ins) ==
    LET op == ins[1]
        mode == ins[2]
    IN CASE op = "LDA" -> LD(operand(m, mode), "A", mode)
         [] op = "LDX" -> LD(operand(m, mode), "X", mode)
         [] op = "LDY" -> LD(operand(m, mode), "Y", mode)
         [] op = "STA" -> ST(resolve(m, mode, FALSE), "A", mode)
         [] op = "STX" -> ST(resolve(m, mode, FALSE), "X", mode)
         [] op = "STY" -> ST(resolve(m, mode, FALSE), "Y", mode)
         [] op = "TAX" -> TRANSFER(m, "A", "X")
         [] op = "TXA" -> TRANSFER(m, "X", "A")
         [] op = "TAY" -> TRANSFER(m, "A", "Y")
         [] op = "TYA" -> TRANSFER(m, "Y", "A")
         [] op = "TSX" -> TRANSFER(m, "SP", "X")
         [] op = "TXS" -> TRANSFER(m, "X", "SP")
         [] op = "PHA" -> PHA(m)
         [] op = "PLA" -> PLA(m)
         [] op = "PHP" -> PHP(m)
         [] op = "PLP" -> PLP(m)
         [] op \in {"AND", "ORA", "EOR"} -> LOGIC(operand(m, mode), op, mode)
         [] op = "BIT" -> BIT(operand(m, mode), mode)
         [] op \in {"ADC", "SBC"} -> ARITH(operand(m, mode), op, mode)
         [] op = "CMP" -> CP(operand(m, mode), "A", mode)
         [] op = "CPX" -> CP(operand(m, mode), "X", mode)
         [] op = "CPY" -> CP(operand(m, mode), "Y", mode)
         [] op \in {"INC", "DEC", "ASL", "LSR", "ROL", "ROR"} ->
                IF mode = "accumulator" THEN RMW_accumulator(m, op)
                ELSE RMW(read_addr(resolve(m, mode, FALSE)), op, mode)
         [] op = "INX" -> INCDEC(m, "X", 1)
         [] op = "INY" -> INCDEC(m, "Y", 1)
         [] op = "DEX" -> INCDEC(m, "X", -1)
         [] op = "DEY" -> INCDEC(m, "Y", -1)
         [] op = "JMP" -> IF mode = "absolute" THEN JMP_absolute(m) ELSE JMP_indirect(m)
         [] op = "JSR" -> JSR_absolute(m)
         [] op = "RTS" -> RTS(m)
         [] op \in {"BCC", "BCS", "BEQ", "BMI", "BNE", "BPL", "BVC", "BVS"} ->
                branch(immediate(m), branch_condition(m.cpu, op))
         [] op = "CLC" -> FLAG(m, "C", 0)
         [] op = "SEC" -> FLAG(m, "C", 1)
         [] op = "CLI" -> FLAG(m, "I", 0)
         [] op = "SEI" -> FLAG(m, "I", 1)
         [] op = "CLV" -> FLAG(m, "V", 0)
         [] op = "CLD" -> FLAG(m, "D", 0)
         [] op = "SED" -> FLAG(m, "D", 1)
         [] op = "BRK" -> BRK(m)
         [] op = "RTI" -> RTI(m)
         [] op = "NOP" -> NOP(m)

\* CPU6502._handle_nmi
handle_nmi(m) ==
    [cyc(enter(m, m.cpu.PC, FALSE, 65530), 7) EXCEPT !.cpu.nmi_pending = FALSE]

\* CPU6502._handle_irq
handle_irq(m) ==
    [cyc(enter(m, m.cpu.PC, FALSE, 65534), 7) EXCEPT !.cpu.irq_pending = FALSE]

\* which interrupt the head of step services
interrupt_kind(c) ==
    IF c.nmi_pending THEN "nmi"
    ELSE IF c.irq_pending /\ c.I = 0 THEN "irq"
    ELSE "none"

\* the interrupt check with the NMI held off by the I flag
check_interrupts_nmi_masked(m) ==
    IF m.cpu.nmi_pending /\ m.cpu.I = 0 THEN handle_nmi(m)
    ELSE IF m.cpu.irq_pending /\ m.cpu.I = 0 THEN handle_irq(m)
    ELSE m

\* the interrupt check with the IRQ taken whatever the I flag
check_interrupts_irq_unmasked(m) ==
    IF m.cpu.nmi_pending THEN handle_nmi(m)
    ELSE IF m.cpu.irq_pending THEN handle_irq(m)
    ELSE m

\* the interrupt check with the two tests in the other order
check_interrupts_irq_first(m) ==
    IF m.cpu.irq_pending /\ m.cpu.I = 0 THEN handle_irq(m)
    ELSE IF m.cpu.nmi_pending THEN handle_nmi(m)
    ELSE m

\* the interrupt check servicing a pending IRQ, tested against I as it was
\* at the start of the step, after the NMI
check_interrupts_both(m) ==
    IF m.cpu.nmi_pending
    THEN IF m.cpu.irq_pending /\ m.cpu.I = 0 THEN handle_irq(handle_nmi(m))
         ELSE handle_nmi(m)
    ELSE IF m.cpu.irq_pending /\ m.cpu.I = 0 THEN handle_irq(m)
    ELSE m

\* step, up to the fetch: "Check for interrupts"
check_interrupts(m) ==
    IF m.cpu.nmi_pending THEN handle_nmi(m)
    ELSE IF m.cpu.irq_pending /\ m.cpu.I = 0 THEN handle_irq(m)
    ELSE m

\* step charging an opcode outside the table like the shortest table entry
\* that reads its operand: 2 cycles and the operand byte skipped
dispatch_illegal_immediate(f) ==
    IF f.val \in DOMAIN instructions
    THEN execute([f EXCEPT !.cpu.cycles = 0], instructions[f.val])
    ELSE cyc([f EXCEPT !.cpu.cycles = 0, !.cpu.PC = @ + 1], 2)

\* step without the reset of self.cycles after the fetch: the cycles of an
\* interrupt entry and of earlier steps stay in the count
dispatch_keeps_cycles(f) ==
    IF f.val \in DOMAIN instructions
    THEN execute(f, instructions[f.val])
    ELSE cyc(f, 2)

\* step, after the fetch: self.cycles = 0, then the handler of the opcode
\* just read, or 2 cycles for an opcode outside the table
dispatch(f) ==
    IF f.val \in DOMAIN instructions
    THEN execute([f EXCEPT !.cpu.cycles = 0], instructions[f.val])
    ELSE cyc([f EXCEPT !.cpu.cycles = 0], 2)

\* self.total_cycles += self.cycles
total(m) == [m EXCEPT !.cpu.total_cycles = @ + m.cpu.cycles]

\* step, from the fetch on; the cycles returned are cpu.cycles
fetch_execute(m) == total(dispatch(fetch(m)))

\* CPU6502.step
step(m) == fetch_execute(check_interrupts(m))

(***************************************************************************)
(* PETScreen.update and PET.run_frame                                      *)
(***************************************************************************)
cycles_per_frame == 20000

\* PETScreen.update: what it does to the video RAM (the drawing is curses')
screen_update(v) == IF ~v.dirty THEN v ELSE [v EXCEPT !.dirty = FALSE]

\* the digits of n in a base, most significant first
RECURSIVE Digits(_, _)
Digits(n, base) ==
    IF n < base THEN <<n>> ELSE Append(Digits(n \div base, base), n % base)

\* zero-padded on the left to at least width digits
RECURSIVE Padded(_, _)
Padded(ds, width) == IF Len(ds) >= width THEN ds ELSE Padded(<<0>> \o ds, width)

\* ord of the characters of f"{n:0{width}X}"
HexChars(ds) == [i \in 1 .. Len(ds) |-> IF ds[i] < 10 THEN 48 + ds[i] ELSE 55 + ds[i]]

Hex(n, width) == HexChars(Padded(Digits(n, 16), width))

\* ord of the characters of f"{n}"
DecimalChars(ds) == [i \in 1 .. Len(ds) |-> 48 + ds[i]]

\* ord of the characters of debug_line
debug_line(c) ==
    <<65, 58>> \o Hex(c.A, 2) \o <<32, 88, 58>> \o Hex(c.X, 2)
    \o <<32, 89, 58>> \o Hex(c.Y, 2) \o <<32, 80, 67, 58>> \o Hex(c.PC, 4)
    \o <<32, 83, 80, 58>> \o Hex(c.SP, 2) \o <<32, 80, 58>> \o Hex(get_status(c), 2)
    \o <<32, 67, 89, 67, 58>> \o DecimalChars(Digits(c.total_cycles, 10))

\* the loop of _update_debug_info from character i on
RECURSIVE write_debug_line(_, _, _)
write_debug_line(v, line, i) ==
    IF i > Len(line) THEN v
    ELSE write_debug_line(IF i - 1 < VideoWidth
                          THEN VideoRAM_write(v, VideoWidth * (VideoHeight - 1) + (i - 1),
                                              line[i])
                          ELSE v,
                          line, i + 1)

\* PET._update_debug_info
update_debug_info(v, c) == write_debug_line(v, debug_line(c), 1)

\* run_frame after its loop: screen.update, then the debug line
frame_end(v, c, debug_mode) ==
    IF debug_mode THEN update_debug_info(screen_update(v), c)
    ELSE screen_update(v)

\* the loop condition admitting one more step at the budget
loop_continues_inclusive(f, p) ==
    f.cycles_this_frame <= cycles_per_frame /\ p.running

\* while cycles_this_frame < self.cycles_per_frame and self.running
loop_continues(f, p) == f.cycles_this_frame < cycles_per_frame /\ p.running

\* the loop body after cpu.step with only VIA 1 given the cycles
update_vias_first_only(m, cycles) ==
    [m EXCEPT !.via1 = VIA_update_timers(@, cycles),
              !.cpu.irq_pending = @ \/ update_timers_returns(m.via1, cycles)]

\* the loop body after cpu.step, with the timers updated but trigger_irq
\* never called
update_vias_without_irq(m, cycles) ==
    [m EXCEPT !.via1 = VIA_update_timers(@, cycles),
              !.via2 = VIA_update_timers(@, cycles)]

\* the loop body of run_frame after cpu.step: both update_timers calls, each
\* followed by cpu.trigger_irq() if it returned True
update_vias(m, cycles) ==
    [m EXCEPT !.via1 = VIA_update_timers(@, cycles),
              !.via2 = VIA_update_timers(@, cycles),
              !.cpu.irq_pending = \/ @
                                  \/ update_timers_returns(m.via1, cycles)
                                  \/ update_timers_returns(m.via2, cycles)]

(***************************************************************************)
(* The operations, as actions                                              *)
(***************************************************************************)
MaxSteps == 2
MaxTriggers == 1

\* what a step is remembered by: the CPU before it, after the interrupt
\* check (mid) and after the instruction, and its bus accesses, the opcode
\* fetch being access number fetch
StepRecord(before, mid, m) ==
    [before |-> before,
     kind |-> interrupt_kind(before),
     mid |-> mid.cpu,
     fetch |-> Len(mid.log) + 1,
     opcode |-> m.log[Len(mid.log) + 1][3],
     log |-> m.log,
     after |-> m.cpu,
     cycles |-> m.cpu.cycles]

\* what the memory and the devices hold
Snapshot == [ram |-> ram, roms |-> roms, video_ram |-> video_ram, via1 |-> via1,
             via2 |-> via2, current_keyboard_row |-> current_keyboard_row]

\* cpu.step(memory)
Step ==
    /\ Len(hist) < bus.steps
    /\ \E mid \in {check_interrupts(Machine)} :
       \E m \in {fetch_execute(mid)} :
          /\ cpu' = m.cpu
          /\ ram' = m.ram
          /\ video_ram' = m.video_ram
          /\ via1' = m.via1
          /\ via2' = m.via2
          /\ current_keyboard_row' = m.current_keyboard_row
          /\ hist' = Append(hist, StepRecord(cpu, mid, m))
    /\ UNCHANGED <<roms, io_mapped, keyboard, bus, pet, frame>>

\* cpu.trigger_irq(), on a line not yet pending
TriggerIRQ ==
    /\ bus.triggers < MaxTriggers
    /\ ~cpu.irq_pending
    /\ cpu' = [cpu EXCEPT !.irq_pending = TRUE]
    /\ bus' = [bus EXCEPT !.triggers = @ + 1]
    /\ UNCHANGED <<ram, roms, io_mapped, video_ram, via1, via2, keyboard,
                   current_keyboard_row, hist, pet, frame>>

\* cpu.trigger_nmi(), on a line not yet pending
TriggerNMI ==
    /\ bus.triggers < MaxTriggers
    /\ ~cpu.nmi_pending
    /\ cpu' = [cpu EXCEPT !.nmi_pending = TRUE]
    /\ bus' = [bus EXCEPT !.triggers = @ + 1]
    /\ UNCHANGED <<ram, roms, io_mapped, video_ram, via1, via2, keyboard,
                   current_keyboard_row, hist, pet, frame>>

\* PET.__init__: System state
PET_init == [running |-> FALSE, debug_mode |-> FALSE]

\* no call of run_frame made
NoFrame == [pc |-> "idle", cycles_this_frame |-> 0]

\* nothing observed yet; steps: how many steps the run may take
NoBus(steps) ==
    [op |-> "none", addr |-> 0, value |-> 0, pre |-> <<>>, ops |-> 0,
     triggers |-> 0, steps |-> steps]

\* a CPU whose registers were loaded and whose flags were pulled from status byte p
Loaded(a, x, y, sp, p, irq) ==
    [set_status(CPU6502_init, p) EXCEPT
        !.A = a, !.X = x, !.Y = y, !.SP = sp, !.irq_pending = irq]

\* the devices as constructed, no ROM loaded
Constructed(steps) ==
    /\ roms = <<>>
    /\ video_ram = VideoRAM_init
    /\ via1 = VIA_init
    /\ via2 = VIA_init
    /\ keyboard = PETKeyboard_init
    /\ current_keyboard_row = 0
    /\ hist = <<>>
    /\ bus = NoBus(steps)
    /\ pet = PET_init
    /\ frame = NoFrame

\* a bytearray filled with one byte, then written at addr, addr + 1, ...
RECURSIVE Program(_, _, _)
Program(arr, addr, bytes) ==
    IF bytes = <<>> THEN arr
    ELSE Program(Put(arr, addr % 65536, Head(bytes)), addr + 1, Tail(bytes))

(***************************************************************************)
(* Spec: the CPU on a bare Memory().  Every opcode byte, at the addresses  *)
(* where the program counter wraps, with stack pointers that wrap, over    *)
(* memories filled with one byte (BRK, an opcode outside the table, CLI).  *)
(***************************************************************************)
Environments ==
    {[fill |-> 0, regs |-> Loaded(0, 0, 0, 255, 0, FALSE)],
     [fill |-> 255, regs |-> Loaded(255, 1, 255, 0, 239, FALSE)],
     [fill |-> 88, regs |-> Loaded(128, 255, 1, 1, 65, TRUE)]}

StartPCs == {512, 65534, 65535}

OperandPairs == {<<255, 1>>, <<128, 255>>}

Init ==
    /\ Constructed(MaxSteps)
    /\ io_mapped = FALSE
    /\ \E env \in Environments, pc \in StartPCs, opcode \in Byte, ops \in OperandPairs :
        /\ ram = Program(Filled(env.fill), pc, <<opcode, ops[1], ops[2]>>)
        /\ cpu = [env.regs EXCEPT !.PC = pc]

Next == Step \/ TriggerIRQ \/ TriggerNMI

Spec == Init /\ [][Next]_vars

(***************************************************************************)
(* SpecPrograms: the CPU on a bare Memory() holding a short program, the   *)
(* rest of RAM zero: JSR to an RTS, PHA followed by PLA, CLC; LDA #; ADC #, *)
(* and a main program with interrupt handlers behind the vectors.          *)
(***************************************************************************)
JsrAddrs == {512, 65532, 65533, 65534}
JsrTargets == {519, 0, 511, 257}
StackPointers == {255, 1, 0}
ByteSamples == {0, 1, 127, 128, 255}

\* JSR target at p, an RTS at target
JsrPrograms ==
    {[pc |-> p, sp |-> sp, a |-> 0, status |-> 0, irq |-> FALSE,
      ram |-> Program(Put(Filled(0), t, 96), p, <<32, t % 256, t \div 256>>)] :
        p \in JsrAddrs, t \in JsrTargets, sp \in StackPointers}

\* PHA; PLA at p with A = v
PushPullPrograms ==
    {[pc |-> p, sp |-> sp, a |-> v, status |-> st, irq |-> FALSE,
      ram |-> Program(Filled(0), p, <<72, 104>>)] :
        p \in {512, 65535}, sp \in StackPointers, v \in ByteSamples, st \in {0, 130}}

\* CLC; LDA #a; ADC #b at $0200
AddPrograms ==
    {[pc |-> 512, sp |-> 255, a |-> 0, status |-> st, irq |-> FALSE,
      ram |-> Program(Filled(0), 512, <<24, 169, a, 105, b>>)] :
        a \in ByteSamples, b \in ByteSamples, st \in {0, 1, 8, 195}}

\* a main program at $0200, an NMI handler at $0300 (NOP; RTI) and an IRQ
\* handler at $0400 that starts with CLI, PLP, RTI, NOP or SEI
Vectors == Program(Program(Filled(0), 65530, <<0, 3>>), 65534, <<0, 4>>)

InterruptPrograms ==
    {[pc |-> 512, sp |-> sp, a |-> 0, status |-> st, irq |-> irq,
      ram |-> Program(Program(Program(Vectors, 768, <<234, 64>>),
                              1024, <<first, 234, 234>>),
                      512, <<main, 234, 234>>)] :
        sp \in {255, 1}, st \in {0, 4}, irq \in BOOLEAN,
        first \in {88, 40, 64, 234, 120}, main \in {234, 88, 120}}

\* the BRK scenario: $FFFE = $34, $FFFF = $12, I = 0, 00 00 at $0200
BrkPrograms ==
    {[pc |-> 512, sp |-> sp, a |-> 0, status |-> st, irq |-> FALSE,
      ram |-> Program(Program(Filled(0), 65534, <<52, 18>>), 512, <<0, 0>>)] :
        sp \in StackPointers, st \in {0, 195}}

JmpPointers == {12543, 12288, 255, 65535, 65534, 767}

\* JMP (ptr) at $0200; $40 at ptr, $80 at the start of ptr's page and $99
\* after ptr
JmpIndirectPrograms ==
    {[pc |-> 512, sp |-> 255, a |-> 0, status |-> 0, irq |-> FALSE,
      ram |-> Program(Put(Put(Put(Filled(0), (ptr + 1) % 65536, 153),
                              BitAnd(ptr, 65280), 128),
                          ptr, 64),
                      512, <<108, ptr % 256, ptr \div 256>>)] :
        ptr \in JmpPointers}

\* the reading instructions that index an absolute or an indirect address
IndexedReads ==
    {op \in DOMAIN instructions :
        /\ instructions[op][1] \in {"LDA", "LDX", "LDY", "AND", "ORA", "EOR",
                                    "ADC", "SBC", "CMP"}
        /\ instructions[op][2] \in {"absoluteX", "absoluteY", "indirectY"}}

\* the stores and the read-modify-write instructions that index an absolute
\* or an indirect address
IndexedWrites ==
    {op \in DOMAIN instructions :
        /\ instructions[op][1] \in {"STA", "STX", "STY", "INC", "DEC", "ASL",
                                    "LSR", "ROL", "ROR"}
        /\ instructions[op][2] \in {"absoluteX", "absoluteY", "indirectY"}}

IndexBases == {4095, 4096, 4351, 65535}
IndexValues == {0, 1, 255}

\* LDX #i; LDY #i; then an indexed read, store or read-modify-write of base,
\* the pointer at $10/$11 for (indirect),Y; $AA at $1000
PageCrossPrograms ==
    {[pc |-> 512, sp |-> 255, a |-> 0, status |-> 0, irq |-> FALSE,
      ram |-> Program(Program(Put(Filled(0), 4096, 170),
                              16, <<base % 256, base \div 256>>),
                      512,
                      IF instructions[op][2] = "indirectY"
                      THEN <<162, i, 160, i, op, 16>>
                      ELSE <<162, i, 160, i, op, base % 256, base \div 256>>)] :
        op \in IndexedReads \cup IndexedWrites, base \in IndexBases, i \in IndexValues}

\* BPL, BMI, BVC, BVS, BCC, BCS, BNE, BEQ
BranchOpcodes == {16, 48, 80, 112, 144, 176, 208, 240}
BranchAddrs == {512, 640, 765, 65534, 65535}
BranchOffsets == {0, 1, 127, 128, 253, 255}

\* a branch at p with offset byte o, every flag clear or N, V, Z, C set
BranchPrograms ==
    {[pc |-> p, sp |-> 255, a |-> 0, status |-> st, irq |-> FALSE,
      ram |-> Program(Filled(0), p, <<op, o>>)] :
        op \in BranchOpcodes, p \in BranchAddrs, o \in BranchOffsets, st \in {0, 195}}

\* a NOP at $FFFF as main program, the NMI vector to $0300, where the
\* handler is RTI, or NOP; RTI
TopInterruptPrograms ==
    {[pc |-> 65535, sp |-> sp, a |-> 0, status |-> st, irq |-> FALSE,
      ram |-> Program(Program(Program(Filled(0), 65530, <<0, 3>>), 768, handler),
                      65535, <<234>>)] :
        sp \in {255, 1}, st \in {0, 195}, handler \in {<<64>>, <<234, 64>>}}

InitPrograms ==
    /\ Constructed(MaxSteps + 1)
    /\ io_mapped = FALSE
    /\ \E prog \in JsrPrograms \cup PushPullPrograms \cup AddPrograms
                      \cup InterruptPrograms \cup BrkPrograms
                      \cup JmpIndirectPrograms \cup PageCrossPrograms
                      \cup BranchPrograms \cup TopInterruptPrograms :
        /\ ram = prog.ram
        /\ cpu = [Loaded(prog.a, 0, 0, prog.sp, prog.status, prog.irq)
                      EXCEPT !.PC = prog.pc]

SpecPrograms == InitPrograms /\ [][Next]_vars

(***************************************************************************)
(* SpecBus: the Memory on its own.  ROM images are loaded, and bytes are   *)
(* written and read at addresses in RAM, in the overlays, on the screen    *)
(* and in the two VIAs, with and without the handlers of the PET.  hist    *)
(* keeps the addresses load_rom was called with, in the order of the calls.*)
(***************************************************************************)
MaxOps == 4

\* zero-padded images as PET._load_roms builds them (16K at $C000, 4K at
\* $F000, 4K at $E000), with a byte set at each address the runs look at;
\* then an empty image at $A000 and a 4K image at $F800, which ends past $FFFF
RomLoads ==
    {[addr |-> 49152,
      data |-> Image(16384, 0, << <<0, 169>>, <<10257, 177>>, <<10274, 178>>,
                                  <<10288, 179>>, <<16380, 180>> >>)],
     [addr |-> 61440, data |-> Image(4096, 0, << <<4092, 241>> >>)],
     [addr |-> 57344,
      data |-> Image(4096, 0, << <<2065, 225>>, <<2082, 226>>, <<2096, 227>> >>)],
     [addr |-> 40960, data |-> Image(0, 0, <<>>)],
     [addr |-> 63488, data |-> Image(4096, 0, << <<2044, 242>> >>)]}

\* $0010, $8000, $C000, $E811, $E822, $E830, $FFFC, and $E811 with bit 16 set
BusAddrs == {16, 32768, 49152, 59409, 59426, 59440, 65532, 124945}
BusValues == {0, 421}

\* memory.load_rom(data, addr)
LoadRom ==
    /\ bus.ops < MaxOps
    /\ \E r \in RomLoads :
        /\ roms' = load_rom_roms(roms, r.data, r.addr)
        /\ ram' = load_rom_ram(ram, r.data, r.addr)
        /\ hist' = Append(hist, r.addr)
        /\ bus' = [bus EXCEPT !.op = "load", !.addr = r.addr, !.value = 0,
                              !.pre = Snapshot, !.ops = @ + 1]
    /\ UNCHANGED <<cpu, io_mapped, video_ram, via1, via2, keyboard,
                   current_keyboard_row, pet, frame>>

\* memory.write(addr, value)
Write ==
    /\ bus.ops < MaxOps
    /\ \E addr \in BusAddrs, value \in BusValues :
       \E m \in {Memory_write(Machine, addr, value)} :
        /\ ram' = m.ram
        /\ video_ram' = m.video_ram
        /\ via1' = m.via1
        /\ via2' = m.via2
        /\ current_keyboard_row' = m.current_keyboard_row
        /\ bus' = [bus EXCEPT !.op = "write", !.addr = addr, !.value = value,
                              !.pre = Snapshot, !.ops = @ + 1]
    /\ UNCHANGED <<cpu, roms, io_mapped, keyboard, hist, pet, frame>>

\* memory.read(addr); bus.value is the byte returned
Read ==
    /\ bus.ops < MaxOps
    /\ \E addr \in BusAddrs :
        bus' = [bus EXCEPT !.op = "read", !.addr = addr,
                           !.value = Memory_read(Machine, addr),
                           !.pre = Snapshot, !.ops = @ + 1]
    /\ UNCHANGED <<cpu, ram, roms, io_mapped, video_ram, via1, via2, keyboard,
                   current_keyboard_row, hist, pet, frame>>

\* the place in a bytearray of length len that Python index i denotes, -1
\* when the index is out of range (IndexError)
bytearray_index(len, i) ==
    IF 0 <= i /\ i < len THEN i
    ELSE IF -len <= i /\ i < 0 THEN len + i
    ELSE -1

BasicRomSize == 16384

\* PET._load_roms: the four stores basic_rom[0x3FFC - 0xC000] = 0x00 ...,
\* as index and byte
vector_stores ==
    << <<16380 - 49152, 0>>, <<16381 - 49152, 192>>,
       <<16382 - 49152, 54>>, <<16383 - 49152, 192>> >>

\* one of the four stores raises IndexError
load_roms_raises ==
    \E k \in 1 .. Len(vector_stores) :
        bytearray_index(BasicRomSize, vector_stores[k][1]) = -1

\* the three images of PET._load_roms once the vector stores are done: the
\* first instructions of the BASIC stub (LDA #$93; JSR $FFD2), the first
\* bytes of CHROUT and GETIN in the KERNAL, and the identity on $20 .. $7E
\* in the character ROM
load_roms_images ==
    << [addr |-> 49152,
        data |-> Image(BasicRomSize, 0,
                       << <<0, 169>>, <<1, 147>>, <<2, 32>>, <<3, 210>>, <<4, 255>> >>
                       \o [k \in 1 .. Len(vector_stores) |->
                              <<bytearray_index(BasicRomSize, vector_stores[k][1]),
                                vector_stores[k][2]>>])],
       [addr |-> 61440, data |-> Image(4096, 0, << <<4050, 72>>, <<4068, 173>> >>)],
       [addr |-> 57344,
        data |-> [size |-> 4096,
                  data |-> [fill |-> 0, bytes |-> [i \in 32 .. 126 |-> i]]]] >>

RECURSIVE load_all(_, _, _)
\* memory.load_rom for each of the images from k on: <<roms, ram>> afterwards
load_all(mem, images, k) ==
    IF k > Len(images) THEN mem
    ELSE load_all(<<load_rom_roms(mem[1], images[k].data, images[k].addr),
                    load_rom_ram(mem[2], images[k].data, images[k].addr)>>,
                  images, k + 1)

\* PET._load_roms, called by PET.__init__ once the handlers are registered
\* and nothing else has touched the memory: it raises IndexError at the
\* first vector store, before any load_rom, or loads the three images.  After
\* the exception there is no PET, and nothing more is done with the memory.
LoadRoms ==
    /\ bus.ops = 0
    /\ io_mapped
    /\ \E mem \in {IF load_roms_raises THEN <<roms, ram>>
                   ELSE load_all(<<roms, ram>>, load_roms_images, 1)} :
        /\ roms' = mem[1]
        /\ ram' = mem[2]
    /\ bus' = [bus EXCEPT !.op = IF load_roms_raises THEN "load_roms raised"
                                 ELSE "load_roms",
                          !.addr = 0, !.value = 0, !.pre = Snapshot,
                          !.ops = IF load_roms_raises THEN MaxOps ELSE @ + 1]
    /\ UNCHANGED <<cpu, io_mapped, video_ram, via1, via2, keyboard,
                   current_keyboard_row, hist, pet, frame>>

\* Memory() alone, or with the handlers PET._setup_memory_map registers and
\* the keyboard on port A of VIA 1
InitBus ==
    /\ cpu = CPU6502_init
    /\ ram = Memory_ram_init
    /\ roms = <<>>
    /\ io_mapped \in BOOLEAN
    /\ video_ram = VideoRAM_init
    /\ via1 = (IF io_mapped THEN set_port_a_handlers(VIA_init) ELSE VIA_init)
    /\ via2 = VIA_init
    /\ keyboard = set_key(PETKeyboard_init, 0, 2, TRUE)
    /\ current_keyboard_row = 0
    /\ hist = <<>>
    /\ bus = NoBus(0)
    /\ pet = PET_init
    /\ frame = NoFrame

NextBus == LoadRom \/ Write \/ Read \/ LoadRoms

SpecBus == InitBus /\ [][NextBus]_vars

(***************************************************************************)
(* SpecVia: one VIA() driven through write, read and update_timers.  hist  *)
(* keeps the last ViaWindow calls, each with the VIA before and after.     *)
(***************************************************************************)
MaxViaOps == 5
ViaWindow == 2

\* register and value of the writes: Timer 1 and Timer 2 counters, the
\* Timer 1 latch, the flag register and the enable register
ViaWrites ==
    {<<4, 2>>, <<4, 5>>, <<5, 0>>, <<5, 1>>, <<8, 2>>, <<9, 0>>, <<9, 1>>,
     <<13, 96>>, <<14, 192>>, <<14, 160>>,
     <<6, 0>>, <<14, 127>>}

\* cycle counts of an instruction
ViaCycles == {2, 3}

ViaCall(op, reg, value, ret, after) ==
    [op |-> op, reg |-> reg, value |-> value, ret |-> ret,
     before |-> via1, after |-> after]

\* hist with one more call, the oldest dropped
Recent(call) ==
    IF Len(hist) < ViaWindow THEN Append(hist, call)
    ELSE Append(Tail(hist), call)

\* via.write(reg, value)
ViaWrite ==
    /\ bus.ops < MaxViaOps
    /\ \E w \in ViaWrites :
       \E v \in {VIA_write(via1, w[1], w[2])} :
        /\ via1' = v
        /\ hist' = Recent(ViaCall("write", w[1], w[2], FALSE, v))
    /\ bus' = [bus EXCEPT !.ops = @ + 1]
    /\ UNCHANGED <<cpu, ram, roms, io_mapped, video_ram, via2, keyboard,
                   current_keyboard_row, pet, frame>>

\* via.read($D); the call's value is the byte returned
ViaRead ==
    /\ bus.ops < MaxViaOps
    /\ hist' = Recent(ViaCall("read", 13, VIA_read(via1, 13, 255), FALSE, via1))
    /\ bus' = [bus EXCEPT !.ops = @ + 1]
    /\ UNCHANGED <<cpu, ram, roms, io_mapped, video_ram, via1, via2, keyboard,
                   current_keyboard_row, pet, frame>>

\* via.update_timers(cycles); the call's ret is the value returned
ViaUpdateTimers ==
    /\ bus.ops < MaxViaOps
    /\ \E c \in ViaCycles :
       \E v \in {VIA_update_timers(via1, c)} :
        /\ via1' = v
        /\ hist' = Recent(ViaCall("update_timers", 0, c,
                                  update_timers_returns(via1, c), v))
    /\ bus' = [bus EXCEPT !.ops = @ + 1]
    /\ UNCHANGED <<cpu, ram, roms, io_mapped, video_ram, via2, keyboard,
                   current_keyboard_row, pet, frame>>

InitVia ==
    /\ Constructed(0)
    /\ cpu = CPU6502_init
    /\ ram = Memory_ram_init
    /\ io_mapped = FALSE

NextVia == ViaWrite \/ ViaRead \/ ViaUpdateTimers

SpecVia == InitVia /\ [][NextVia]_vars

(***************************************************************************)
(* SpecFrame: one call of PET.run_frame on a PET whose memory map and      *)
(* peripherals are set up, with a program in RAM at $C000 where start()    *)
(* puts PC.  hist keeps the last FrameWindow iterations of the loop.       *)
(***************************************************************************)
FrameWindow == 2

\* one iteration of the loop: the step's record, the VIAs as the step left
\* them, whether each update_timers returned True, and the CPU and VIAs
\* at the end of the iteration
FrameRecord(before, mid, m, u) ==
    [stepped1 |-> m.via1, stepped2 |-> m.via2,
     triggered1 |-> update_timers_returns(m.via1, m.cpu.cycles),
     triggered2 |-> update_timers_returns(m.via2, m.cpu.cycles),
     updated1 |-> u.via1, updated2 |-> u.via2,
     done |-> u.cpu,
     budget |-> frame.cycles_this_frame]
    @@ StepRecord(before, mid, m)

\* hist with one more iteration, the oldest dropped
RecentFrames(rec) ==
    IF Len(hist) < FrameWindow THEN Append(hist, rec)
    ELSE Append(Tail(hist), rec)

\* everything run_frame could change
FrameSnapshot == [cpu |-> cpu, memory |-> Snapshot, keyboard |-> keyboard, pet |-> pet]

\* run_frame is called: it returns at once if not running
RunFrame ==
    /\ frame.pc = "idle"
    /\ frame' = IF ~pet.running THEN [frame EXCEPT !.pc = "returned"]
                ELSE [pc |-> "loop", cycles_this_frame |-> 0]
    /\ bus' = [bus EXCEPT !.op = "run_frame", !.pre = FrameSnapshot]
    /\ UNCHANGED <<cpu, ram, roms, io_mapped, video_ram, via1, via2, keyboard,
                   current_keyboard_row, hist, pet>>

\* one iteration of the while loop
RunFrameStep ==
    /\ frame.pc = "loop"
    /\ loop_continues(frame, pet)
    /\ \E mid \in {check_interrupts(Machine)} :
       \E m \in {fetch_execute(mid)} :
       \E u \in {update_vias(m, m.cpu.cycles)} :
          /\ cpu' = u.cpu
          /\ ram' = u.ram
          /\ video_ram' = u.video_ram
          /\ via1' = u.via1
          /\ via2' = u.via2
          /\ current_keyboard_row' = u.current_keyboard_row
          /\ frame' = [frame EXCEPT !.cycles_this_frame = @ + m.cpu.cycles]
          /\ hist' = RecentFrames(FrameRecord(cpu, mid, m, u))
    /\ UNCHANGED <<roms, io_mapped, keyboard, bus, pet>>

\* the loop is left: screen.update, the debug line, return
RunFrameReturn ==
    /\ frame.pc = "loop"
    /\ ~loop_continues(frame, pet)
    /\ video_ram' = frame_end(video_ram, cpu, pet.debug_mode)
    /\ frame' = [frame EXCEPT !.pc = "returned"]
    /\ UNCHANGED <<cpu, ram, roms, io_mapped, via1, via2, keyboard,
                   current_keyboard_row, hist, bus, pet>>

\* vectors to $C100, where the interrupt handler starts with RTI, or with
\* CLI; NOP; RTI
FrameVectors(fill, handler) ==
    Program(Program(Filled(fill), 65534, <<0, 193>>), 49408, handler)

FrameHandlers == {<<64>>, <<88, 234, 64>>}

\* at $C000: enable Timer 1 of VIA 1, load it with 16, then JMP to self;
\* the same with Timer 2 of VIA 2 loaded with 8; a memory of NOPs; a memory
\* of BRKs; and, started with I = 1: Timer 1 of VIA 1 enabled and loaded
\* with 2, then disabled in the enable register, CLI, NOP, JMP to self; and
\* Timer 2 of VIA 2 enabled and loaded with 2, then its flag cleared in the
\* flag register, CLI, NOP, JMP to self
FramePrograms ==
    {[status |-> st,
      ram |-> Program(FrameVectors(0, h), 49152,
                      <<169, 192, 141, 30, 232, 169, 16, 141, 20, 232,
                        169, 0, 141, 21, 232, 76, 15, 192>>)] :
        st \in {0, 4}, h \in FrameHandlers}
    \cup {[status |-> 0,
           ram |-> Program(FrameVectors(0, <<64>>), 49152,
                           <<169, 160, 141, 46, 232, 169, 8, 141, 40, 232,
                             169, 0, 141, 41, 232, 76, 15, 192>>)],
          [status |-> 0, ram |-> Filled(234)],
          [status |-> 0, ram |-> Filled(0)],
          [status |-> 4,
           ram |-> Program(FrameVectors(0, <<64>>), 49152,
                           <<169, 192, 141, 30, 232, 169, 2, 141, 20, 232,
                             169, 0, 141, 21, 232, 169, 64, 141, 30, 232,
                             88, 234, 76, 22, 192>>)],
          [status |-> 4,
           ram |-> Program(FrameVectors(0, <<64>>), 49152,
                           <<169, 160, 141, 46, 232, 169, 2, 141, 40, 232,
                             169, 0, 141, 41, 232, 169, 32, 141, 45, 232,
                             88, 234, 76, 22, 192>>)]}

\* PET.__init__ without its ROMs, then a program put in RAM; running after
\* start(), which sets PC and clears the screen, or not started
InitFrame ==
    /\ roms = <<>>
    /\ io_mapped = TRUE
    /\ via1 = set_port_a_handlers(VIA_init)
    /\ via2 = VIA_init
    /\ keyboard = PETKeyboard_init
    /\ current_keyboard_row = 0
    /\ hist = <<>>
    /\ bus = NoBus(0)
    /\ frame = NoFrame
    /\ \E running \in BOOLEAN, debug_mode \in BOOLEAN, prog \in FramePrograms :
        /\ pet = [running |-> running, debug_mode |-> debug_mode]
        /\ ram = prog.ram
        /\ video_ram = (IF running THEN VideoRAM_clear(VideoRAM_init)
                        ELSE VideoRAM_init)
        /\ cpu = [Loaded(0, 0, 0, 255, prog.status, FALSE) EXCEPT
                     !.PC = IF running THEN 49152 ELSE 0]

NextFrame == RunFrame \/ RunFrameStep \/ RunFrameReturn

SpecFrame == InitFrame /\ [][NextFrame]_vars

\* weak fairness of the three steps of a call, each with its enabling
\* condition written out: cpu.step and the screen update are defined in
\* every state, so a step can be taken exactly when its guard holds
CallFair == []<>(frame.pc # "idle") \/ []<><<RunFrame>>_vars

StepFair ==
    \/ []<>~(frame.pc = "loop" /\ loop_continues(frame, pet))
    \/ []<><<RunFrameStep>>_vars

ReturnFair ==
    \/ []<>~(frame.pc = "loop" /\ ~loop_continues(frame, pet))
    \/ []<><<RunFrameReturn>>_vars

\* run_frame runs on one thread: a call that can go on does go on
SpecFrameFair == SpecFrame /\ CallFair /\ StepFair /\ ReturnFair

(***************************************************************************)
(* What the runs are asked about                                           *)
(***************************************************************************)
\* the last step taken, and whether one was taken
Stepped == Len(hist) > 0
Last == hist[Len(hist)]

Flags == {"C", "Z", "I", "D", "B", "V", "N"}

\* C1: after any step, A, X, Y and SP are in 0..255, PC is in 0..65535 and
\* every flag is 0 or 1
C1_RegistersInRange ==
    Stepped =>
        /\ cpu.A \in Byte /\ cpu.X \in Byte /\ cpu.Y \in Byte /\ cpu.SP \in Byte
        /\ cpu.PC \in 0..65535
        /\ \A f \in Flags : cpu[f] \in {0, 1}

\* C1, the part the code keeps: everything but the program counter is in range
C1_AllButPC ==
    Stepped =>
        /\ cpu.A \in Byte /\ cpu.X \in Byte /\ cpu.Y \in Byte /\ cpu.SP \in Byte
        /\ \A f \in Flags : cpu[f] \in {0, 1}

\* C2: bit 5 of the byte get_status returns is 1 in every state of the CPU
C2_StatusBit5 == Bit(get_status(cpu), 5) = 1

\* C2: PLP or RTI has just pulled a status byte whose bit 5 is 0
C2_PulledBit5Clear ==
    /\ Stepped
    /\ Last.opcode \in {40, 64}
    /\ Last.log[Last.fetch + 1][1] = "R"
    /\ Bit(Last.log[Last.fetch + 1][3], 5) = 0

\* two steps in a row, neither entering an interrupt, running opcodes op1, op2
Ran2(i, op1, op2) ==
    /\ i + 1 <= Len(hist)
    /\ hist[i].kind = "none" /\ hist[i + 1].kind = "none"
    /\ hist[i].opcode = op1 /\ hist[i + 1].opcode = op2

\* the bus accesses of step h after its opcode fetch
Accesses(h) == SubSeq(h.log, h.fetch + 1, Len(h.log))

\* C3: a JSR at p to an RTS, no interrupt entered: after the two steps PC is
\* p + 3 (as a 16-bit address), SP is what it was before the JSR, and the
\* steps report 6 and 6 cycles
C3_JsrRtsReturns ==
    \A i \in 1 .. Len(hist) :
        Ran2(i, 32, 96) =>
            /\ hist[i + 1].after.PC = (hist[i].before.PC + 3) % 65536
            /\ hist[i + 1].after.SP = hist[i].before.SP
            /\ hist[i].cycles = 6 /\ hist[i + 1].cycles = 6

\* C3 with the program counter compared modulo 2^16
C3_JsrRtsReturnsMod ==
    \A i \in 1 .. Len(hist) :
        Ran2(i, 32, 96) =>
            /\ hist[i + 1].after.PC % 65536 = (hist[i].before.PC + 3) % 65536
            /\ hist[i + 1].after.SP = hist[i].before.SP
            /\ hist[i].cycles = 6 /\ hist[i + 1].cycles = 6

\* C4: PHA then PLA, no interrupt entered: A is the value pushed, SP is what
\* it was, Z and N describe the value, and the only accesses are one write
\* to and one read from $0100 | SP
C4_PushPull ==
    \A i \in 1 .. Len(hist) :
        Ran2(i, 72, 104) =>
            LET v == hist[i].before.A
                sp == hist[i].before.SP
                end == hist[i + 1].after
            IN /\ end.A = v
               /\ end.SP = sp
               /\ end.Z = (IF v = 0 THEN 1 ELSE 0)
               /\ end.N = Bit(v, 7)
               /\ Accesses(hist[i]) = << <<"W", 256 + sp, v>> >>
               /\ Accesses(hist[i + 1]) = << <<"R", 256 + sp, v>> >>

\* C4: PHA then PLA ran with the stack pointer wrapping from $00 to $FF
C4_PushPullWrapped ==
    /\ Ran2(1, 72, 104)
    /\ hist[1].before.SP = 0
    /\ hist[1].after.SP = 255
    /\ hist[1].before.A = 128

\* C5: CLC; LDA #a; ADC #b with D = 0, no interrupt entered: A = (a + b) mod 256,
\* C = 1 exactly when a + b >= 256, Z and N describe A
C5_AddImmediate ==
    \A i \in 1 .. Len(hist) :
        (Ran2(i, 24, 169) /\ Ran2(i + 1, 169, 105) /\ hist[i + 2].before.D = 0) =>
            LET a == Accesses(hist[i + 1])[1][3]
                b == Accesses(hist[i + 2])[1][3]
                end == hist[i + 2].after
            IN /\ end.A = (a + b) % 256
               /\ end.C = (IF a + b >= 256 THEN 1 ELSE 0)
               /\ end.Z = (IF end.A = 0 THEN 1 ELSE 0)
               /\ end.N = Bit(end.A, 7)

\* C5: the three instructions ran with a carry out and a zero result, from C = 1
C5_AddCarriedOut ==
    /\ Ran2(1, 24, 169) /\ Ran2(2, 169, 105)
    /\ hist[1].before.C = 1 /\ hist[1].before.D = 0
    /\ hist[3].after.C = 1 /\ hist[3].after.A = 0

\* addr lies within one of the overlays rs
InOverlay(rs, addr) ==
    \E i \in 1 .. Len(rs) : rs[i].addr <= addr /\ addr < rs[i].addr + rs[i].size

\* addr is one of the addresses the PET gives a handler
Handled(addr) ==
    io_mapped /\ (addr \in 32768 .. 33767 \/ addr \in 59408 .. 59439)

\* C6: Memory.read returns the handler's result where a read handler is
\* registered (the VIA register at $E810-$E82F, the video byte at
\* $8000-$83E7), else the byte of an overlay holding the address, else RAM
C6_ReadOrder ==
    bus.op = "read" =>
        LET a == bus.addr % 65536 IN
        IF io_mapped /\ a \in 32768 .. 33767
        THEN bus.value = Get(video_ram.memory, a - 32768)
        ELSE IF io_mapped /\ a \in 59408 .. 59423
        THEN bus.value = VIA_read(via1, a - 59408, read_row(keyboard, current_keyboard_row))
        ELSE IF io_mapped /\ a \in 59424 .. 59439
        THEN bus.value = VIA_read(via2, a - 59424, 255)
        ELSE IF InOverlay(roms, a)
        THEN \E i \in 1 .. Len(roms) :
                /\ roms[i].addr <= a /\ a < roms[i].addr + roms[i].size
                /\ bus.value = Get(roms[i].data, a - roms[i].addr)
        ELSE bus.value = Get(ram, a)

\* C6: $E822 was read under an overlay after DDR B of VIA 2 was written, and
\* the byte returned is the register, which neither the overlay nor RAM holds
C6_ReadViaUnderRom ==
    /\ bus.op = "read" /\ bus.addr = 59426
    /\ io_mapped /\ InOverlay(roms, 59426)
    /\ bus.value = 165 /\ via2.ddr_b = 165
    /\ Get(ram, 59426) # 165

\* C7 as written: a Memory.write to an address within an overlay changes
\* nothing: not RAM, not the overlays, not a device
C7_RomWriteNoOp ==
    (bus.op = "write" /\ InOverlay(roms, bus.addr % 65536)) => Snapshot = bus.pre

\* C7 amended: a Memory.write to an address within an overlay for which no
\* write handler is registered changes nothing
C7_RomWriteDropped ==
    (bus.op = "write" /\ InOverlay(roms, bus.addr % 65536)
        /\ ~Handled(bus.addr % 65536)) => Snapshot = bus.pre

\* C7: a byte other than the one RAM holds was written to $C000 under an overlay
C7_RomWritten ==
    /\ bus.op = "write" /\ bus.addr = 49152
    /\ InOverlay(roms, 49152)
    /\ bus.value % 256 # Get(bus.pre.ram, 49152)

\* the bus accesses step h made before its opcode fetch
Entry(h) == SubSeq(h.log, 1, h.fetch - 1)

\* step h entered an interrupt through the vector at v: PC high, PC low and
\* the status with bit 4 clear and bit 5 set went to $0100 | SP, I is set and
\* the opcode was fetched at the address read from v, v + 1
Entered(h, v) ==
    /\ h.fetch = 6
    /\ LET c == h.before
           lo == h.log[4][3]
           hi == h.log[5][3]
       IN /\ Entry(h) = << <<"W", 256 + c.SP, (c.PC \div 256) % 256>>,
                           <<"W", 256 + ((c.SP - 1) % 256), c.PC % 256>>,
                           <<"W", 256 + ((c.SP - 2) % 256), AndNot(get_status(c), 16)>>,
                           <<"R", v, lo>>, <<"R", v + 1, hi>> >>
          /\ Bit(h.log[3][3], 4) = 0 /\ Bit(h.log[3][3], 5) = 1
          /\ h.mid.SP = (c.SP - 3) % 256
          /\ h.mid.I = 1
          /\ h.mid.PC = lo + 256 * hi
          /\ h.log[6][2] = h.mid.PC

\* step h pushed nothing and read no vector before its fetch
NotEntered(h) == h.fetch = 1 /\ h.mid = h.before

\* C8: a step that begins with nmi_pending set, whatever I is, enters the
\* NMI before its fetch (three pushes, I = 1, PC from $FFFA/$FFFB) and
\* clears nmi_pending
C8_NmiEntry ==
    \A i \in 1 .. Len(hist) :
        hist[i].before.nmi_pending =>
            /\ Entered(hist[i], 65530)
            /\ ~hist[i].mid.nmi_pending
            /\ ~hist[i].after.nmi_pending

\* C8: an NMI was entered with I = 1 and the stack pointer wrapping
C8_NmiEnteredMasked ==
    /\ Stepped
    /\ Last.before.nmi_pending /\ Last.before.I = 1 /\ Last.before.SP = 0
    /\ Last.mid.SP = 253

\* C9: a step enters the IRQ exactly when it begins with irq_pending set,
\* I = 0 and no NMI pending; the entry pushes PC and status, sets I, takes PC
\* from $FFFE/$FFFF and clears irq_pending; a step that begins with I = 1
\* leaves irq_pending as it is; and between two IRQ entries a CLI, PLP or
\* RTI has cleared I
C9_IrqEntry ==
    /\ \A i \in 1 .. Len(hist) :
          LET h == hist[i]
              due == h.before.irq_pending /\ h.before.I = 0 /\ ~h.before.nmi_pending
          IN /\ due => (Entered(h, 65534) /\ ~h.mid.irq_pending /\ ~h.after.irq_pending)
             /\ ~due => ~(h.fetch = 6 /\ h.log[4][2] = 65534)
             /\ (~due /\ ~h.before.nmi_pending) => NotEntered(h)
             /\ h.before.I = 1 =>
                    /\ h.mid.irq_pending = h.before.irq_pending
                    /\ h.after.irq_pending = h.before.irq_pending
    /\ \A i, j \in 1 .. Len(hist) :
          (i < j /\ Entered(hist[i], 65534) /\ Entered(hist[j], 65534)) =>
              \E k \in i .. j - 1 :
                  hist[k].opcode \in {88, 40, 64} /\ hist[k].after.I = 0

\* C9: an IRQ was entered, its handler did not clear I, the line was raised
\* again, and the next step entered nothing
C9_IrqHeldOff ==
    /\ Len(hist) >= 2
    /\ Entered(hist[1], 65534)
    /\ hist[1].after.I = 1
    /\ hist[2].before.irq_pending
    /\ NotEntered(hist[2])

\* C9: an IRQ was entered a second time after the handler's CLI, PLP or RTI
C9_IrqEnteredAgain ==
    /\ Len(hist) >= 2
    /\ Entered(hist[1], 65534)
    /\ Entered(hist[2], 65534)

\* C10: a step that begins with nmi_pending and irq_pending set and I = 0
\* enters the NMI alone (three bytes pushed, PC from $FFFA/$FFFB), clears
\* nmi_pending and leaves irq_pending set
C10_NmiBeforeIrq ==
    \A i \in 1 .. Len(hist) :
        LET h == hist[i] IN
        (h.before.nmi_pending /\ h.before.irq_pending /\ h.before.I = 0) =>
            /\ Entered(h, 65530)
            /\ ~h.mid.nmi_pending /\ ~h.after.nmi_pending
            /\ h.mid.irq_pending /\ h.after.irq_pending

\* C10: a step began with both lines pending and I = 0
C10_BothPending ==
    /\ Stepped
    /\ Last.before.nmi_pending /\ Last.before.irq_pending /\ Last.before.I = 0
    /\ Last.after.irq_pending

\* the value of access k of step h after its opcode fetch
Operand(h, k) == h.log[h.fetch + k][3]

\* C11: a BRK at p writes the high and then the low byte of p + 2 and then
\* the status with bits 4 and 5 set to $0100 | SP, SP - 1, SP - 2, sets I,
\* takes PC from $FFFE/$FFFF, leaves SP three lower modulo 256, and the
\* step reports 7 cycles
C11_BrkEntry ==
    \A i \in 1 .. Len(hist) :
        hist[i].opcode = 0 =>
            LET h == hist[i]
                c == h.mid
                ret == (c.PC + 2) % 65536
            IN /\ Len(Accesses(h)) = 5
               /\ SubSeq(Accesses(h), 1, 3) =
                     << <<"W", 256 + c.SP, ret \div 256>>,
                        <<"W", 256 + ((c.SP - 1) % 256), ret % 256>>,
                        <<"W", 256 + ((c.SP - 2) % 256),
                          BitOr(get_status(c), 16)>> >>
               /\ Bit(Operand(h, 3), 4) = 1 /\ Bit(Operand(h, 3), 5) = 1
               /\ Accesses(h)[4] = <<"R", 65534, Operand(h, 4)>>
               /\ Accesses(h)[5] = <<"R", 65535, Operand(h, 5)>>
               /\ h.after.I = 1
               /\ h.after.PC = Operand(h, 4) + 256 * Operand(h, 5)
               /\ h.after.SP = (c.SP - 3) % 256
               /\ h.cycles = 7

\* C11: a BRK at $FFFF ran with the stack pointer wrapping
C11_BrkAtTopWrapped ==
    /\ Stepped
    /\ Last.opcode = 0 /\ Last.kind = "none"
    /\ Last.mid.PC = 65535 /\ Last.mid.SP = 0
    /\ Last.after.SP = 253

\* the first step ran the BRK scenario: 00 00 at $0200, $1234 in
\* $FFFE/$FFFF, I = 0, no interrupt pending
BrkScenario ==
    /\ Stepped
    /\ hist[1].kind = "none" /\ hist[1].opcode = 0
    /\ hist[1].before.PC = 512 /\ hist[1].before.I = 0
    /\ Operand(hist[1], 4) = 52 /\ Operand(hist[1], 5) = 18

\* the three values the first step pushed, in the order of the pushes
Pushed == <<Operand(hist[1], 1), Operand(hist[1], 2), Operand(hist[1], 3)>>

\* C12 as stated: in the BRK scenario PC = $1234, I = 1 and the bytes
\* pushed are $02, $03 and status | $10
C12_BrkScenarioAsStated ==
    BrkScenario =>
        /\ hist[1].after.PC = 4660 /\ hist[1].after.I = 1
        /\ \/ Pushed = <<2, 3, BitOr(get_status(hist[1].before), 16)>>
           \/ Pushed = <<3, 2, BitOr(get_status(hist[1].before), 16)>>
           \/ Pushed = <<BitOr(get_status(hist[1].before), 16), 2, 3>>
           \/ Pushed = <<BitOr(get_status(hist[1].before), 16), 3, 2>>

\* C12: in the BRK scenario PC = $1234, I = 1 and the bytes pushed are $02,
\* $02 (the return address $0202, high byte first) and then status | $10
C12_BrkScenarioPushes ==
    BrkScenario =>
        /\ hist[1].after.PC = 4660 /\ hist[1].after.I = 1
        /\ Pushed = <<2, 2, BitOr(get_status(hist[1].before), 16)>>
        /\ hist[1].after.SP = (hist[1].before.SP - 3) % 256

\* C12: the scenario ran with all flags clear from SP = $FF
C12_BrkScenarioRan ==
    /\ BrkScenario
    /\ hist[1].before.SP = 255 /\ get_status(hist[1].before) = 32
    /\ Pushed = <<2, 2, 48>>

\* the pointer a JMP (indirect) fetched
Pointer(h) == Operand(h, 1) + 256 * Operand(h, 2)

\* C13: JMP (indirect) reads the target's low byte at the pointer and its
\* high byte at the start of the pointer's page when the pointer ends in
\* $FF, at pointer + 1 otherwise, and the step reports 5 cycles
C13_JmpIndirect ==
    \A i \in 1 .. Len(hist) :
        hist[i].opcode = 108 =>
            LET h == hist[i]
                ptr == Pointer(h)
            IN /\ Len(Accesses(h)) = 4
               /\ Accesses(h)[3] = <<"R", ptr, Operand(h, 3)>>
               /\ Accesses(h)[4] =
                     <<"R", IF ptr % 256 = 255 THEN BitAnd(ptr, 65280) ELSE ptr + 1,
                       Operand(h, 4)>>
               /\ h.after.PC = Operand(h, 3) + 256 * Operand(h, 4)
               /\ h.cycles = 5
               /\ (ptr = 12543 /\ i = 1 /\ h.before.PC = 512) => h.after.PC = 32832

\* C13: 6C FF 30 ran with $40 at $30FF and $80 at $3000
C13_JmpIndirectWrapped ==
    /\ Stepped
    /\ Last.opcode = 108 /\ Pointer(Last) = 12543
    /\ Last.after.PC = 32832

\* the base address and the index of the indexed read step h ran: the
\* operand word and X or Y, or the word at the zero-page pointer and Y
IndexedBase(h) ==
    IF instructions[h.opcode][2] = "indirectY"
    THEN Operand(h, 2) + 256 * Operand(h, 3)
    ELSE Operand(h, 1) + 256 * Operand(h, 2)

IndexOf(h) == IF instructions[h.opcode][2] = "absoluteX" THEN h.mid.X ELSE h.mid.Y

PageCrossed(base, index) ==
    BitAnd(base, 65280) # BitAnd((base + index) % 65536, 65280)

\* C14: a reading instruction with Absolute,X, Absolute,Y or (Indirect),Y
\* reports 4 (5 for (Indirect),Y) cycles, and one more exactly when the
\* page of base differs from the page of (base + index) & $FFFF
C14_PageCrossCycles ==
    \A i \in 1 .. Len(hist) :
        hist[i].opcode \in IndexedReads =>
            LET h == hist[i]
            IN h.cycles =
                  (IF instructions[h.opcode][2] = "indirectY" THEN 5 ELSE 4)
                  + (IF PageCrossed(IndexedBase(h), IndexOf(h)) THEN 1 ELSE 0)

\* C14: LDA $0FFF,X ran with X = $01, read $AA at $1000 and reported 5 cycles
C14_PageCrossedLoad ==
    /\ Stepped
    /\ Last.opcode = 189 /\ IndexedBase(Last) = 4095 /\ Last.mid.X = 1
    /\ Last.after.A = 170 /\ Last.cycles = 5

\* C14: an indexed read stayed in its page and reported the base count
C14_SamePageLoad ==
    /\ Stepped
    /\ Last.opcode = 177 /\ IndexedBase(Last) = 4096 /\ Last.mid.Y = 255
    /\ Last.cycles = 5

\* the calls hist holds that are update_timers(c)
Updates == {i \in 1 .. Len(hist) : hist[i].op = "update_timers"}

\* C15: a write of the low byte to register 4 followed by a write of the
\* high byte to register 5 leaves counter = latch = N with flag bit 6
\* clear; update_timers(c) with counter > 0 subtracts c when counter > c and
\* otherwise sets flag bit 6 and reloads the counter from the latch; with
\* N = 2, c = 3 and enable bit 6 set it returns true
C15_Timer1LoadReload ==
    /\ \A i \in 1 .. Len(hist) - 1 :
        (/\ hist[i].op = "write" /\ hist[i].reg = 4
         /\ hist[i + 1].op = "write" /\ hist[i + 1].reg = 5) =>
            LET n == hist[i].value + 256 * hist[i + 1].value
                v == hist[i + 1].after
            IN /\ v.timer1_counter = n /\ v.timer1_latch = n
               /\ Bit(v.irq_status, 6) = 0
    /\ \A i \in Updates :
        LET h == hist[i] IN
        h.before.timer1_counter > 0 =>
            /\ h.before.timer1_counter > h.value =>
                  /\ h.after.timer1_counter = h.before.timer1_counter - h.value
                  /\ Bit(h.after.irq_status, 6) = Bit(h.before.irq_status, 6)
            /\ h.before.timer1_counter <= h.value =>
                  /\ h.after.timer1_counter = h.before.timer1_latch
                  /\ Bit(h.after.irq_status, 6) = 1
            /\ (/\ h.before.timer1_counter = 2 /\ h.before.timer1_latch = 2
                /\ h.value = 3 /\ Bit(h.before.irq_enable, 6) = 1) =>
                  /\ h.ret /\ h.after.timer1_counter = 2

\* C15: $00 was written to register 5 with $02 in the low latch, and
\* update_timers(3) with enable bit 6 set then reloaded the counter
C15_Timer1Reloaded ==
    /\ Len(hist) = 2
    /\ hist[1].op = "write" /\ hist[1].reg = 5 /\ hist[1].after.timer1_counter = 2
    /\ hist[2].op = "update_timers" /\ hist[2].value = 3
    /\ Bit(hist[2].before.irq_enable, 6) = 1
    /\ hist[2].ret /\ via1.timer1_counter = 2 /\ Bit(via1.irq_status, 6) = 1

\* flag bit b went from 0 to 1 in call h with its enable bit set
NewlySet(h, b) ==
    /\ Bit(h.before.irq_status, b) = 0 /\ Bit(h.after.irq_status, b) = 1
    /\ Bit(h.before.irq_enable, b) = 1

\* the timer behind flag bit b (6: Timer 1, 5: Timer 2) expired in call h
\* with its enable bit set
ExpiredEnabled(h, b) ==
    LET counter == IF b = 6 THEN h.before.timer1_counter
                   ELSE h.before.timer2_counter
    IN /\ counter > 0 /\ counter <= h.value
       /\ Bit(h.after.irq_status, b) = 1
       /\ Bit(h.before.irq_enable, b) = 1

\* C16 as stated: update_timers returns true exactly when the call turned
\* flag bit 6 or 5 from 0 to 1 with the bit's enable set
C16_ReturnsNewlySet ==
    \A i \in Updates : hist[i].ret <=> (NewlySet(hist[i], 6) \/ NewlySet(hist[i], 5))

\* C16: update_timers returns true exactly when Timer 1 or Timer 2 expired
\* in the call with its enable bit set, whether or not the timer's flag was
\* already set; so it returns false for an expiry with the enable bit clear
\* and for a call in which no timer expires whatever flags are set
C16_ReturnsOnEnabledExpiry ==
    \A i \in Updates :
        hist[i].ret <=> (ExpiredEnabled(hist[i], 6) \/ ExpiredEnabled(hist[i], 5))

\* C16: Timer 1 expired a second time with its flag still set and enabled,
\* and update_timers returned true
C16_ExpiredAgain ==
    /\ Len(hist) = 2
    /\ hist[2].op = "update_timers" /\ hist[2].ret
    /\ Bit(hist[2].before.irq_status, 6) = 1
    /\ ExpiredEnabled(hist[2], 6)

\* C16: Timer 2 expired with its enable bit clear and update_timers
\* returned false
C16_ExpiredDisabled ==
    /\ Stepped
    /\ Last.op = "update_timers" /\ ~Last.ret
    /\ Last.before.timer2_counter > 0 /\ Last.after.timer2_counter = 0
    /\ Bit(Last.after.irq_status, 5) = 1

\* C16: a call found an enabled flag set and no timer expiring, and
\* returned false
C16_NoExpiry ==
    /\ Stepped
    /\ Last.op = "update_timers" /\ ~Last.ret
    /\ BitAnd(Last.before.irq_status, Last.before.irq_enable) # 0

\* C17: update_timers with the Timer 2 counter in 1 .. cycles sets the
\* counter to 0 and flag bit 5; with the counter at 0 it leaves the counter
\* and flag bit 5 as they are; and the counter leaves 0 only by a write of a
\* non-zero value to register 8 or 9
C17_Timer2OneShot ==
    \A i \in 1 .. Len(hist) :
        LET h == hist[i] IN
        /\ (/\ h.op = "update_timers"
            /\ h.before.timer2_counter > 0
            /\ h.before.timer2_counter <= h.value) =>
              /\ h.after.timer2_counter = 0
              /\ Bit(h.after.irq_status, 5) = 1
        /\ (h.op = "update_timers" /\ h.before.timer2_counter = 0) =>
              /\ h.after.timer2_counter = 0
              /\ Bit(h.after.irq_status, 5) = Bit(h.before.irq_status, 5)
        /\ (h.before.timer2_counter = 0 /\ h.after.timer2_counter # 0) =>
              /\ h.op = "write" /\ h.reg \in {8, 9} /\ h.value # 0

\* C17: Timer 2 expired and the next update_timers left it at 0
C17_Timer2StayedExpired ==
    /\ Len(hist) = 2
    /\ hist[1].op = "update_timers" /\ hist[1].before.timer2_counter > 0
    /\ hist[1].after.timer2_counter = 0
    /\ hist[2].op = "update_timers" /\ hist[2].after.timer2_counter = 0
    /\ Bit(via1.irq_status, 5) = 1

\* C18: a read of register $D has bit 7 set exactly when a flag is set
\* whose enable bit is set
C18_IfrSummaryBit ==
    Bit(VIA_read(via1, 13, 255), 7) = 1
        <=> BitAnd(BitAnd(via1.irq_status, via1.irq_enable), 127) # 0

\* an update_timers call of iteration h returned True
Triggered(h) == h.triggered1 \/ h.triggered2

\* C19: in each iteration of run_frame both VIAs are updated, with the
\* cycles the step returned, from the state the completed instruction left
\* them in, and only irq_pending of the CPU changes after the step; an
\* enabled expiry sets irq_pending; a step enters the IRQ only at its start
\* and only for a line raised by an earlier iteration; and after an
\* iteration that detected an expiry the next step starts with irq_pending
\* set and, when I = 0, enters the IRQ before its fetch
C19_TimerIrqAtNextBoundary ==
    \A i \in 1 .. Len(hist) :
        LET h == hist[i] IN
        frame.pc # "idle" =>
            /\ h.updated1 = VIA_update_timers(h.stepped1, h.cycles)
            /\ h.updated2 = VIA_update_timers(h.stepped2, h.cycles)
            /\ h.done = [h.after EXCEPT !.irq_pending = @ \/ Triggered(h)]
            /\ Triggered(h) => h.done.irq_pending
            /\ h.kind = "irq" =>
                  /\ h.before.irq_pending /\ h.before.I = 0
                  /\ Entered(h, 65534)
            /\ h.kind # "irq" => NotEntered(h)
            /\ i < Len(hist) =>
                  /\ hist[i + 1].before = h.done
                  /\ (Triggered(h) /\ h.done.I = 0) =>
                        /\ hist[i + 1].kind = "irq"
                        /\ Entered(hist[i + 1], 65534)

\* C19: Timer 1 expired after an instruction that began with no IRQ
\* pending, and the next step entered the IRQ
C19_IrqAtNextBoundary ==
    /\ Len(hist) = 2
    /\ hist[1].kind = "none" /\ ~hist[1].before.irq_pending
    /\ ~hist[1].after.irq_pending /\ hist[1].triggered1
    /\ hist[2].kind = "irq" /\ hist[2].mid.PC = 49408

\* C19: an expiry was detected with I = 1 and the next step entered nothing
C19_IrqHeldAtBoundary ==
    /\ Len(hist) = 2
    /\ hist[1].triggered1 /\ hist[1].done.I = 1
    /\ hist[2].kind = "none" /\ hist[2].before.irq_pending

\* C20, in every state of a call: a step is taken only while the cycles
\* summed so far are below 20000, it returns 2 to 7 cycles, which go to both
\* VIAs and are added to the sum; a call made while running returns with a
\* sum in 20000 .. 20006; a call made while not running takes no step and
\* leaves the CPU, the memory, the VIAs and the video RAM as they were
C20_FrameBudget ==
    /\ \A i \in 1 .. Len(hist) :
          /\ hist[i].budget < 20000
          /\ hist[i].cycles \in 2 .. 7
          /\ hist[i].updated1 = VIA_update_timers(hist[i].stepped1, hist[i].cycles)
          /\ hist[i].updated2 = VIA_update_timers(hist[i].stepped2, hist[i].cycles)
    /\ (Stepped /\ frame.pc = "loop") =>
          frame.cycles_this_frame = Last.budget + Last.cycles
    /\ frame.pc # "idle" =>
          frame.cycles_this_frame = cpu.total_cycles - bus.pre.cpu.total_cycles
    /\ (frame.pc = "returned" /\ bus.pre.pet.running) =>
          frame.cycles_this_frame \in 20000 .. 20006
    /\ (frame.pc = "returned" /\ ~bus.pre.pet.running) =>
          /\ hist = <<>>
          /\ FrameSnapshot = bus.pre

\* C20: run_frame returns, and on the way C20_FrameBudget holds
C20_RunFrameTerminates == []C20_FrameBudget /\ <>(frame.pc = "returned")

\* C20: a call made while running returned after 20006 cycles
C20_FrameReturned ==
    /\ frame.pc = "returned" /\ bus.pre.pet.running
    /\ frame.cycles_this_frame = 20006

\* C20: a call made while running returned after exactly 20000 cycles
C20_FrameReturnedExact ==
    /\ frame.pc = "returned" /\ bus.pre.pet.running
    /\ frame.cycles_this_frame = 20000

\* C20: a call made while not running returned
C20_FrameNotRun ==
    /\ frame.pc = "returned" /\ ~bus.pre.pet.running

(***************************************************************************)
(* The ROM overlays (SpecBus)                                              *)
(***************************************************************************)
\* the calls of load_rom so far were the three of PET._load_roms, in its order
SystemRoms == hist = <<49152, 61440, 57344>>

\* the addresses of the two VIAs
ViaAddrs == (Via1Base .. Via1Base + 15) \cup (Via2Base .. Via2Base + 15)

\* C21: with the overlays registered as the System registers them (BASIC at
\* $C000, then KERNAL at $F000, then the character ROM at $E000), a read in
\* $F000-$FFFF returns the byte of the KERNAL image and a read in $E000-$EFFF
\* outside the VIA addresses returns the byte of the character ROM image.
C21_SystemOverlayReads ==
    (bus.op = "read" /\ SystemRoms) =>
        LET a == bus.addr % 65536
        IN /\ a >= 61440 => bus.value = Get(roms[2].data, a - 61440)
           /\ (a >= 57344 /\ a < 61440 /\ a \notin ViaAddrs) =>
                  bus.value = Get(roms[3].data, a - 57344)

\* what the reads of C21 return: the byte of the BASIC image, registered first
C21_SystemReadsBasic ==
    (bus.op = "read" /\ SystemRoms) =>
        LET a == bus.addr % 65536
        IN (a >= 57344 /\ a \notin io_read_handlers) =>
               bus.value = Get(roms[1].data, a - 49152)

\* a read of $FFFC with the three overlays of the System registered
C21_SystemKernalRead == bus.op = "read" /\ SystemRoms /\ bus.addr = 65532

\* the overlays that contain address a
Covering(a) ==
    {i \in 1 .. Len(roms) : roms[i].addr <= a /\ a < roms[i].addr + roms[i].size}

\* the call of load_rom that registered overlay i last
LastLoad(i) ==
    CHOOSE k \in 1 .. Len(hist) :
        /\ hist[k] = roms[i].addr
        /\ \A j \in (k + 1) .. Len(hist) : hist[j] # roms[i].addr

\* of the overlays in S, the one registered last
RegisteredLast(S) == CHOOSE i \in S : \A j \in S : LastLoad(j) <= LastLoad(i)

\* C22: when two overlays registered with load_rom overlap, a read of an
\* address covered by both (and by no I/O handler) returns the byte of the
\* overlay that was registered last.
C22_LastOverlayWins ==
    LET a == bus.addr % 65536
    IN (bus.op = "read" /\ a \notin io_read_handlers
            /\ Cardinality(Covering(a)) >= 2) =>
           bus.value = Get(roms[RegisteredLast(Covering(a))].data,
                           a - roms[RegisteredLast(Covering(a))].addr)

\* what such a read returns: the byte of the first covering overlay in the
\* order of the dict, which is the order of first registration
C22_FirstOverlayWins ==
    LET a == bus.addr % 65536
    IN (bus.op = "read" /\ a \notin io_read_handlers
            /\ Cardinality(Covering(a)) >= 2) =>
           bus.value = Get(roms[rom_lookup(roms, a, 1)].data,
                           a - roms[rom_lookup(roms, a, 1)].addr)

\* a read of an address two overlays cover
C22_OverlapRead ==
    /\ bus.op = "read"
    /\ (bus.addr % 65536) \notin io_read_handlers
    /\ Cardinality(Covering(bus.addr % 65536)) >= 2

\* the image of the overlay load_rom was last called with
LoadedImage == roms[rom_position(roms, bus.addr, 1)]

\* a registration the memory map has no place for: no bytes, or an extent
\* that runs past $FFFF
InvalidImage(o) == o.size = 0 \/ o.addr + o.size > MemorySize

\* C23: load_rom refuses a zero-length image and an image whose extent
\* crosses $FFFF, and leaves the overlay set and the RAM image unchanged.
C23_InvalidRomRejected ==
    (bus.op = "load" /\ InvalidImage(LoadedImage)) =>
        /\ roms = bus.pre.roms
        /\ ram = bus.pre.ram

\* load_rom was called with an empty image / with the image that ends past $FFFF
C23_EmptyImageLoaded == bus.op = "load" /\ LoadedImage.size = 0
C23_CrossingImageLoaded ==
    bus.op = "load" /\ LoadedImage.addr + LoadedImage.size > MemorySize

(***************************************************************************)
(* SpecVideo: a VideoRAM() on its own, written, read, cleared and drawn by *)
(* PETScreen.update.  bus keeps the last call and the state before it.     *)
(***************************************************************************)
MaxVideoOps == 4

\* the first and the last cell, and the offsets on either side of the buffer
VideoAddrs == {0, VideoSize - 1, VideoSize, -1}
VideoValues == {0, 32, 65}

\* video_ram.write(addr, value)
VideoWrite ==
    /\ bus.ops < MaxVideoOps
    /\ \E addr \in VideoAddrs, value \in VideoValues :
        /\ video_ram' = VideoRAM_write(video_ram, addr, value)
        /\ bus' = [bus EXCEPT !.op = "write", !.addr = addr, !.value = value,
                              !.pre = Snapshot, !.ops = @ + 1]
    /\ UNCHANGED <<cpu, ram, roms, io_mapped, via1, via2, keyboard,
                   current_keyboard_row, hist, pet, frame>>

\* video_ram.read(addr); bus.value is the byte returned
VideoRead ==
    /\ bus.ops < MaxVideoOps
    /\ \E addr \in VideoAddrs :
        bus' = [bus EXCEPT !.op = "read", !.addr = addr,
                           !.value = VideoRAM_read(video_ram, addr),
                           !.pre = Snapshot, !.ops = @ + 1]
    /\ UNCHANGED <<cpu, ram, roms, io_mapped, video_ram, via1, via2, keyboard,
                   current_keyboard_row, hist, pet, frame>>

\* video_ram.clear()
VideoClear ==
    /\ bus.ops < MaxVideoOps
    /\ video_ram' = VideoRAM_clear(video_ram)
    /\ bus' = [bus EXCEPT !.op = "clear", !.addr = 0, !.value = 0,
                          !.pre = Snapshot, !.ops = @ + 1]
    /\ UNCHANGED <<cpu, ram, roms, io_mapped, via1, via2, keyboard,
                   current_keyboard_row, hist, pet, frame>>

\* screen.update(video_ram)
ScreenUpdate ==
    /\ bus.ops < MaxVideoOps
    /\ video_ram' = screen_update(video_ram)
    /\ bus' = [bus EXCEPT !.op = "update", !.addr = 0, !.value = 0,
                          !.pre = Snapshot, !.ops = @ + 1]
    /\ UNCHANGED <<cpu, ram, roms, io_mapped, via1, via2, keyboard,
                   current_keyboard_row, hist, pet, frame>>

InitVideo ==
    /\ cpu = CPU6502_init
    /\ ram = Memory_ram_init
    /\ io_mapped = FALSE
    /\ Constructed(0)

NextVideo == VideoWrite \/ VideoRead \/ VideoClear \/ ScreenUpdate

SpecVideo == InitVideo /\ [][NextVideo]_vars

(***************************************************************************)
(* The dirty flag of the video buffer (SpecVideo)                          *)
(***************************************************************************)
InVideo(addr) == 0 <= addr /\ addr < VideoSize

\* C24: a write of the byte already stored leaves dirty (and the buffer)
\* unchanged, so dirty stays false after the screen was drawn; a write of a
\* differing byte to an in-range address stores it and sets dirty; clear()
\* sets every byte to $20 and dirty to true.
C24_DirtyFlag ==
    /\ (bus.op = "write" /\ InVideo(bus.addr)) =>
           IF Get(bus.pre.video_ram.memory, bus.addr) = bus.value
           THEN video_ram = bus.pre.video_ram
           ELSE /\ video_ram.dirty
                /\ Get(video_ram.memory, bus.addr) = bus.value
    /\ bus.op = "clear" =>
           /\ video_ram.dirty
           /\ \A a \in 0 .. VideoSize - 1 : Get(video_ram.memory, a) = 32

\* the byte already stored was written after the screen was drawn, and dirty
\* is still false
C24_EqualWriteAfterUpdate ==
    /\ bus.op = "write" /\ InVideo(bus.addr)
    /\ ~bus.pre.video_ram.dirty
    /\ Get(bus.pre.video_ram.memory, bus.addr) = bus.value
    /\ ~video_ram.dirty

\* a differing byte was written after the screen was drawn
C24_DifferingWriteAfterUpdate ==
    /\ bus.op = "write" /\ InVideo(bus.addr)
    /\ ~bus.pre.video_ram.dirty
    /\ Get(bus.pre.video_ram.memory, bus.addr) # bus.value

\* the buffer was cleared after the screen was drawn
C24_ClearedAfterUpdate == bus.op = "clear" /\ ~bus.pre.video_ram.dirty

(***************************************************************************)
(* SpecKeyboard: the keyboard behind port A of VIA 1, as                   *)
(* PET._setup_memory_map and PET._connect_peripherals wire it.  The CPU    *)
(* side writes the port and its direction register and reads the port.     *)
(* hist keeps the bytes written to the port, in order.                     *)
(***************************************************************************)
MaxPortOps == 4

PortA == Via1Base + 1
DdrA == Via1Base + 3

\* row numbers, all-output and all-input masks, and mixed patterns
PortValues == {0, 5, 7, 165, 248, 255}

\* memory.write($E811, value)
PortWrite ==
    /\ bus.ops < MaxPortOps
    /\ \E value \in PortValues :
       \E m \in {Memory_write(Machine, PortA, value)} :
        /\ via1' = m.via1
        /\ current_keyboard_row' = m.current_keyboard_row
        /\ hist' = Append(hist, value)
        /\ bus' = [bus EXCEPT !.op = "write", !.addr = PortA, !.value = value,
                              !.pre = Snapshot, !.ops = @ + 1]
    /\ UNCHANGED <<cpu, ram, roms, io_mapped, video_ram, via2, keyboard, pet, frame>>

\* memory.write($E813, value)
DdrWrite ==
    /\ bus.ops < MaxPortOps
    /\ \E value \in PortValues :
       \E m \in {Memory_write(Machine, DdrA, value)} :
        /\ via1' = m.via1
        /\ current_keyboard_row' = m.current_keyboard_row
        /\ bus' = [bus EXCEPT !.op = "write", !.addr = DdrA, !.value = value,
                              !.pre = Snapshot, !.ops = @ + 1]
    /\ UNCHANGED <<cpu, ram, roms, io_mapped, video_ram, via2, keyboard, hist,
                   pet, frame>>

\* memory.read($E811); bus.value is the byte returned
PortRead ==
    /\ bus.ops < MaxPortOps
    /\ bus' = [bus EXCEPT !.op = "read", !.addr = PortA,
                          !.value = Memory_read(Machine, PortA),
                          !.pre = Snapshot, !.ops = @ + 1]
    /\ UNCHANGED <<cpu, ram, roms, io_mapped, video_ram, via1, via2, keyboard,
                   current_keyboard_row, hist, pet, frame>>

\* the devices of a PET with the handlers registered, keys down in rows 0 and 5
InitKeyboard ==
    /\ cpu = CPU6502_init
    /\ ram = Memory_ram_init
    /\ roms = <<>>
    /\ io_mapped = TRUE
    /\ video_ram = VideoRAM_init
    /\ via1 = set_port_a_handlers(VIA_init)
    /\ via2 = VIA_init
    /\ keyboard = set_key(set_key(PETKeyboard_init, 0, 2, TRUE), 5, 3, TRUE)
    /\ current_keyboard_row = 0
    /\ hist = <<>>
    /\ bus = NoBus(0)
    /\ pet = PET_init
    /\ frame = NoFrame

NextKeyboard == PortWrite \/ DdrWrite \/ PortRead

SpecKeyboard == InitKeyboard /\ [][NextKeyboard]_vars

(***************************************************************************)
(* The keyboard through port A (SpecKeyboard)                              *)
(***************************************************************************)
\* the byte last written to port A
PortWritten == hist[Len(hist)]

\* C25: after a write of v to $E811 the selected row is v & 7, and a later
\* read of $E811 returns the matrix byte of that row, whatever DDRA holds.
C25_KeyboardThroughPortA ==
    /\ (bus.op = "write" /\ bus.addr = PortA) =>
           current_keyboard_row = bus.value % 8
    /\ (bus.op = "read" /\ hist # <<>>) =>
           bus.value = read_row(keyboard, PortWritten % 8)

\* what the wiring does: the row is (v & DDRA) & 7, and the read mixes the
\* byte written (on the output pins) with the byte of the row selected (on
\* the input pins)
C25_KeyboardBehindDdr ==
    /\ (bus.op = "write" /\ bus.addr = PortA) =>
           current_keyboard_row = BitAnd(bus.value, via1.ddr_a) % 8
    /\ (bus.op = "read" /\ hist # <<>>) =>
           bus.value = BitOr(BitAnd(PortWritten, via1.ddr_a),
                             AndNot(read_row(keyboard, current_keyboard_row),
                                    via1.ddr_a))

\* row 5 was written to the port with DDRA as constructed, then the port read
C25_RowFiveRead ==
    /\ bus.op = "read" /\ hist = <<5>> /\ via1.ddr_a = 0

\* row 5 was written with the three row pins set to output, then the port read
C25_RowFiveReadOutputs ==
    /\ bus.op = "read" /\ hist = <<5>> /\ via1.ddr_a = 7
       /\ current_keyboard_row = 5

(***************************************************************************)
(* Opcodes outside the table (Spec)                                        *)
(***************************************************************************)
\* C26: a step whose opcode is not in the instruction table returns 2
\* cycles, makes no bus access after the fetch, and leaves the CPU as it was
\* when the opcode was fetched except that PC is 1 higher (and the cycle
\* counters count the 2 cycles).
C26_IllegalOpcode ==
    \A i \in 1 .. Len(hist) :
        hist[i].opcode \notin DOMAIN instructions =>
            /\ hist[i].cycles = 2
            /\ Accesses(hist[i]) = <<>>
            /\ hist[i].after = [hist[i].mid EXCEPT !.PC = @ + 1, !.cycles = 2,
                                                   !.total_cycles = @ + 2]

\* an opcode outside the table was stepped over, no interrupt entered
C26_IllegalOpcodeRan ==
    /\ Stepped
    /\ Last.opcode \notin DOMAIN instructions
    /\ Last.kind = "none"
    /\ Last.before.PC = 512

\* the same with the opcode at $FFFF: PC is then $10000
C26_IllegalOpcodeAtTop ==
    /\ Stepped
    /\ Last.opcode \notin DOMAIN instructions
    /\ Last.before.PC = 65535
    /\ Last.after.PC = 65536

(***************************************************************************)
(* SpecArith: one ADC # or SBC # at $0200 on a bare Memory(), from every   *)
(* accumulator, with C and D either way.                                   *)
(***************************************************************************)
\* both nibbles are decimal digits
ValidBcd(b) == b % 16 <= 9 /\ b \div 16 <= 9

\* the accumulators: every byte, the 100 BCD bytes among them
ArithAccumulators == Byte

\* the operands: BCD bytes whose digits do and do not carry, and $7F, $FF
ArithOperands == {0, 1, 9, 16, 37, 80, 121, 128, 153, 127, 255}

\* ADC #, SBC #
ArithOpcodes == {105, 233}

InitArith ==
    /\ Constructed(1)
    /\ io_mapped = FALSE
    /\ \E a \in ArithAccumulators, m \in ArithOperands, c \in {0, 1}, d \in {0, 1},
          op \in ArithOpcodes :
        /\ ram = Program(Filled(0), 512, <<op, m>>)
        /\ cpu = [Loaded(a, 0, 0, 255, 8 * d + c, FALSE) EXCEPT !.PC = 512]

NextArith == Step

SpecArith == InitArith /\ [][NextArith]_vars

(***************************************************************************)
(* Decimal mode (SpecArith)                                                *)
(***************************************************************************)
\* the number a BCD byte stands for, and the BCD byte of a number below 100
FromBcd(b) == (b \div 16) * 10 + (b % 16)
ToBcd(n) == (n \div 10) * 16 + (n % 10)

\* the step h ran opcode op with D set on two BCD bytes
DecimalStep(h, op) ==
    /\ h.opcode = op
    /\ h.before.D = 1
    /\ ValidBcd(h.before.A)
    /\ ValidBcd(Operand(h, 1))

\* the CPU after h holds result in A with carry c, Z and N of result, V = 0
DecimalResult(h, result, c) ==
    /\ h.after.A = result
    /\ h.after.C = c
    /\ h.after.Z = (IF result = 0 THEN 1 ELSE 0)
    /\ h.after.N = Bit(result, 7)
    /\ h.after.V = 0

\* C27: with D = 1 and BCD bytes a, m: ADC leaves in A the BCD byte of
\* (a + m + c) mod 100 with C = 1 exactly when the sum is 100 or more; SBC
\* leaves the BCD byte of (a - m - (1 - c)) mod 100 with C = 1 exactly when
\* there was no borrow; Z and N describe that byte and V = 0.
C27_DecimalArithmetic ==
    \A i \in 1 .. Len(hist) :
        LET h == hist[i]
            a == FromBcd(h.before.A)
            m == FromBcd(Operand(h, 1))
            sum == a + m + h.before.C
            diff == a - m - (1 - h.before.C)
        IN /\ DecimalStep(h, 105) =>
                  DecimalResult(h, ToBcd(sum % 100), IF sum >= 100 THEN 1 ELSE 0)
           /\ DecimalStep(h, 233) =>
                  DecimalResult(h, ToBcd((diff + 100) % 100), IF diff >= 0 THEN 1 ELSE 0)

\* what the two handlers do with D = 1: the flags are those of C27, and A
\* keeps the byte it held
C27_DecimalFlagsOnly ==
    \A i \in 1 .. Len(hist) :
        LET h == hist[i]
            a == FromBcd(h.before.A)
            m == FromBcd(Operand(h, 1))
            sum == a + m + h.before.C
            diff == a - m - (1 - h.before.C)
            expected == IF h.opcode = 105 THEN ToBcd(sum % 100)
                        ELSE ToBcd((diff + 100) % 100)
            carry == IF h.opcode = 105 THEN (IF sum >= 100 THEN 1 ELSE 0)
                     ELSE (IF diff >= 0 THEN 1 ELSE 0)
        IN (DecimalStep(h, 105) \/ DecimalStep(h, 233)) =>
               /\ h.after.A = h.before.A
               /\ h.after.C = carry
               /\ h.after.Z = (IF expected = 0 THEN 1 ELSE 0)
               /\ h.after.N = Bit(expected, 7)
               /\ h.after.V = 0

\* $09 + $01 was added in decimal mode, carry clear
C27_DecimalNinePlusOne ==
    /\ Stepped
    /\ DecimalStep(Last, 105)
    /\ Last.before.A = 9 /\ Operand(Last, 1) = 1 /\ Last.before.C = 0

(***************************************************************************)
(* The cycles of a step that enters an interrupt (Spec)                    *)
(***************************************************************************)
\* the step h entered the NMI or the IRQ handler before its fetch
Serviced(h) == h.kind # "none"

\* C28: a step that services an NMI or an IRQ returns the 7 cycles of the
\* entry on top of the cycles of the instruction it executes (at least 2;
\* 2 for NOP and for an opcode outside the table, 7 for BRK), and adds the
\* same amount to total_cycles.
C28_EntryCyclesCounted ==
    \A i \in 1 .. Len(hist) :
        Serviced(hist[i]) =>
            /\ hist[i].cycles >= 7 + 2
            /\ hist[i].opcode = 234 => hist[i].cycles = 7 + 2
            /\ hist[i].opcode \notin DOMAIN instructions => hist[i].cycles = 7 + 2
            /\ hist[i].opcode = 0 => hist[i].cycles = 7 + 7
            /\ hist[i].after.total_cycles = hist[i].before.total_cycles + hist[i].cycles

\* what such a step returns: the cycles of the instruction alone, the
\* counter being zeroed after the entry
C28_EntryCyclesDropped ==
    \A i \in 1 .. Len(hist) :
        Serviced(hist[i]) =>
            /\ hist[i].mid.cycles = hist[i].before.cycles + 7
            /\ hist[i].cycles <= 7
            /\ hist[i].opcode = 234 => hist[i].cycles = 2
            /\ hist[i].opcode \notin DOMAIN instructions => hist[i].cycles = 2
            /\ hist[i].opcode = 0 => hist[i].cycles = 7
            /\ hist[i].after.total_cycles = hist[i].before.total_cycles + hist[i].cycles

\* an NMI was serviced and the handler's first instruction was a NOP
C28_NmiThenNop == Stepped /\ Last.kind = "nmi" /\ Last.opcode = 234

(***************************************************************************)
(* The IRQ line and the VIA flags (SpecFrame)                              *)
(***************************************************************************)
\* VIA v holds an interrupt flag that its enable register lets through
Asserted(v) == BitAnd(BitAnd(v.irq_status, v.irq_enable), 127) # 0

\* C29: a step of the frame loop enters the IRQ only if, at that instruction
\* boundary, one of the VIAs still holds an enabled interrupt flag; a flag
\* cleared or disabled while I = 1 causes no entry once I is cleared.
C29_IrqLevelSensitive ==
    \A i \in 2 .. Len(hist) :
        hist[i].kind = "irq" =>
            \/ Asserted(hist[i - 1].updated1)
            \/ Asserted(hist[i - 1].updated2)

\* what the CPU goes by: irq_pending, set by an earlier iteration and kept
\* until an entry
C29_IrqLatched ==
    \A i \in 2 .. Len(hist) :
        hist[i].kind = "irq" <=> (hist[i - 1].done.irq_pending /\ hist[i - 1].done.I = 0)

\* a CLI ran with no VIA flag both set and enabled, and the next step
\* entered the IRQ
C29_IrqAfterFlagGone ==
    /\ Len(hist) >= 2
    /\ hist[Len(hist) - 1].opcode = 88
    /\ ~Asserted(hist[Len(hist) - 1].updated1)
    /\ ~Asserted(hist[Len(hist) - 1].updated2)
    /\ hist[Len(hist)].kind = "irq"

(***************************************************************************)
(* Binary ADC (SpecArith)                                                  *)
(***************************************************************************)
\* the two's-complement number a byte stands for
Signed(b) == IF b >= 128 THEN b - 256 ELSE b

\* C30: ADC with D = 0 on bytes A, M and carry C, t = A + M + C: V is 1
\* exactly when the signed sum of A, M and C lies outside -128 .. 127, which
\* is when A and M agree in bit 7 and t differs from them there; A becomes
\* t mod 256 and C is 1 exactly when t > 255.
C30_BinaryAdcOverflow ==
    \A i \in 1 .. Len(hist) :
        LET h == hist[i]
            a == h.before.A
            m == Operand(h, 1)
            t == a + m + h.before.C
            signed == Signed(a) + Signed(m) + h.before.C
        IN (h.opcode = 105 /\ h.before.D = 0) =>
               /\ h.after.V = 1 <=> signed \notin -128 .. 127
               /\ h.after.V = 1 <=> (Bit(a, 7) = Bit(m, 7) /\ Bit(t % 256, 7) # Bit(a, 7))
               /\ h.after.V \in {0, 1}
               /\ h.after.A = t % 256
               /\ h.after.C = (IF t > 255 THEN 1 ELSE 0)

\* two negative bytes were added with the carry set, and V came out set
C30_NegativeOverflow ==
    /\ Stepped
    /\ Last.opcode = 105 /\ Last.before.D = 0 /\ Last.before.C = 1
    /\ Last.before.A >= 128 /\ Operand(Last, 1) >= 128
    /\ Last.after.V = 1 /\ Last.after.C = 1

\* two positive bytes were added and V came out set with no carry
C30_PositiveOverflow ==
    /\ Stepped
    /\ Last.opcode = 105 /\ Last.before.D = 0
    /\ Last.before.A < 128 /\ Operand(Last, 1) < 128
    /\ Last.after.V = 1 /\ Last.after.C = 0

\* a carry came out with V clear
C30_CarryWithoutOverflow ==
    /\ Stepped
    /\ Last.opcode = 105 /\ Last.before.D = 0
    /\ Last.after.V = 0 /\ Last.after.C = 1

(***************************************************************************)
(* Binary SBC (SpecArith)                                                  *)
(***************************************************************************)
\* C31: SBC with D = 0 on bytes A, M and carry C leaves what ADC leaves for
\* the operand M XOR $FF: A becomes (A - M - (1 - C)) mod 256, C is 1
\* exactly when A - M - (1 - C) >= 0 (no borrow), and Z and N describe the
\* new A.
C31_BinarySbc ==
    \A i \in 1 .. Len(hist) :
        LET h == hist[i]
            a == h.before.A
            m == Operand(h, 1)
            diff == a - m - (1 - h.before.C)
            t == a + BitXor(m, 255) + h.before.C
        IN (h.opcode = 233 /\ h.before.D = 0) =>
               /\ h.after.A = (diff + 256) % 256
               /\ h.after.A = t % 256
               /\ h.after.C = (IF diff >= 0 THEN 1 ELSE 0)
               /\ h.after.C = (IF t > 255 THEN 1 ELSE 0)
               /\ h.after.Z = (IF h.after.A = 0 THEN 1 ELSE 0)
               /\ h.after.N = Bit(h.after.A, 7)

\* a byte was subtracted from a smaller one with the carry clear: a borrow
C31_SbcBorrowed ==
    /\ Stepped
    /\ Last.opcode = 233 /\ Last.before.D = 0 /\ Last.before.C = 0
    /\ Last.before.A < Operand(Last, 1)
    /\ Last.after.C = 0

\* equal bytes were subtracted with the carry set: zero, no borrow
C31_SbcToZero ==
    /\ Stepped
    /\ Last.opcode = 233 /\ Last.before.D = 0 /\ Last.before.C = 1
    /\ Last.before.A = Operand(Last, 1)
    /\ Last.after.A = 0 /\ Last.after.Z = 1 /\ Last.after.C = 1

(***************************************************************************)
(* Indexed stores and read-modify-write instructions (SpecPrograms)        *)
(***************************************************************************)
\* C32: STA abs,X and STA abs,Y report 5 cycles, STA (ind),Y reports 6 and
\* ASL, LSR, ROL, ROR, INC, DEC abs,X report 7, whether or not base + index
\* leaves the page of base.
C32_IndexedWriteCycles ==
    \A i \in 1 .. Len(hist) :
        hist[i].opcode \in IndexedWrites =>
            LET h == hist[i]
                op == instructions[h.opcode]
            IN /\ op[1] = "STA" =>
                      h.cycles = (IF op[2] = "indirectY" THEN 6 ELSE 5)
               /\ op[1] # "STA" => (op[2] = "absoluteX" /\ h.cycles = 7)

\* STA $0FFF,X ran with X = $01, wrote $1000 and reported 5 cycles
C32_PageCrossedStore ==
    /\ Stepped
    /\ Last.opcode = 157 /\ IndexedBase(Last) = 4095 /\ Last.mid.X = 1
    /\ Accesses(Last)[3] = <<"W", 4096, Last.mid.A>>
    /\ Last.cycles = 5

\* INC $0FFF,X ran with X = $01, turned the $AA at $1000 into $AB and
\* reported 7 cycles
C32_PageCrossedIncrement ==
    /\ Stepped
    /\ Last.opcode = 254 /\ IndexedBase(Last) = 4095 /\ Last.mid.X = 1
    /\ Get(ram, 4096) = 171
    /\ Last.cycles = 7

\* a store or read-modify-write stayed in the page of its base
C32_SamePageWrite ==
    /\ Stepped
    /\ Last.opcode \in IndexedWrites
    /\ ~PageCrossed(IndexedBase(Last), IndexOf(Last))

(***************************************************************************)
(* Branches (SpecPrograms)                                                 *)
(***************************************************************************)
\* the flag a branch opcode tests and the value it branches on
BranchTest(op) ==
    CASE op = 16 -> <<"N", 0>>
      [] op = 48 -> <<"N", 1>>
      [] op = 80 -> <<"V", 0>>
      [] op = 112 -> <<"V", 1>>
      [] op = 144 -> <<"C", 0>>
      [] op = 176 -> <<"C", 1>>
      [] op = 208 -> <<"Z", 0>>
      [] op = 240 -> <<"Z", 1>>

\* step h ran a branch whose condition held
BranchTaken(h) == h.mid[BranchTest(h.opcode)[1]] = BranchTest(h.opcode)[2]

\* the address a taken branch at p with offset byte o goes to
BranchTarget(p, o) == (p + 2 + Signed(o)) % 65536

\* C33: a branch at p with operand byte o whose condition is false leaves
\* PC = p + 2 and reports 2 cycles; one whose condition is true leaves
\* PC = (p + 2 + signed8(o)) mod 65536 and reports 3 cycles, or 4 when the
\* high byte of the new PC differs from the high byte of p + 2.
C33_BranchTargetAndCycles ==
    \A i \in 1 .. Len(hist) :
        hist[i].opcode \in BranchOpcodes =>
            LET h == hist[i]
                p == h.mid.PC
                o == Operand(h, 1)
            IN IF BranchTaken(h)
               THEN /\ h.after.PC = BranchTarget(p, o)
                    /\ h.cycles = 3 + (IF ((p + 2) % 65536) \div 256
                                            # BranchTarget(p, o) \div 256
                                       THEN 1 ELSE 0)
               ELSE /\ h.after.PC = p + 2
                    /\ h.cycles = 2

\* BNE at $0280 with offset $7F was taken to $0301, across a page: 4 cycles
C33_BranchForwardAcross ==
    /\ Stepped
    /\ Last.opcode = 208 /\ Last.mid.PC = 640 /\ Operand(Last, 1) = 127
    /\ Last.after.PC = 769 /\ Last.cycles = 4

\* a branch was taken backwards within its page: 3 cycles
C33_BranchBackInPage ==
    /\ Stepped
    /\ Last.opcode \in BranchOpcodes /\ Last.mid.PC = 640
    /\ Operand(Last, 1) = 253
    /\ Last.after.PC = 639 /\ Last.cycles = 3

\* a branch was not taken: 2 cycles
C33_BranchNotTaken ==
    /\ Stepped
    /\ Last.opcode \in BranchOpcodes /\ ~BranchTaken(Last)
    /\ Last.mid.PC = 765
    /\ Last.after.PC = 767 /\ Last.cycles = 2

\* a branch at $FFFE was taken across the top of memory
C33_BranchAtTop ==
    /\ Stepped
    /\ Last.opcode \in BranchOpcodes /\ BranchTaken(Last)
    /\ Last.mid.PC = 65534 /\ Operand(Last, 1) = 1
    /\ Last.after.PC = 1

(***************************************************************************)
(* The status byte pulled by PLP and RTI (Spec)                            *)
(***************************************************************************)
\* the byte step h pulled first: the status byte of PLP and of RTI
PulledStatus(h) == Accesses(h)[1][3]

\* the flags C, Z, I, D, V, N of CPU c are bits 0, 1, 2, 3, 6, 7 of byte b
FlagsFrom(c, b) ==
    /\ c.C = Bit(b, 0) /\ c.Z = Bit(b, 1) /\ c.I = Bit(b, 2)
    /\ c.D = Bit(b, 3) /\ c.V = Bit(b, 6) /\ c.N = Bit(b, 7)

\* C34: PLP and RTI take C, Z, I, D, V and N from the byte pulled and ignore
\* its bits 4 and 5: the B flag of the CPU is what it was, and the status
\* byte put together afterwards has bit 5 set and bit 4 clear.
C34_PulledStatusIgnoresBreak ==
    \A i \in 1 .. Len(hist) :
        hist[i].opcode \in {40, 64} =>
            /\ FlagsFrom(hist[i].after, PulledStatus(hist[i]))
            /\ hist[i].after.B = hist[i].mid.B
            /\ Bit(get_status(hist[i].after), 5) = 1
            /\ Bit(get_status(hist[i].after), 4) = 0

\* what PLP and RTI do: the same, except that B becomes bit 4 of the byte
C34_PulledStatusSetsBreak ==
    \A i \in 1 .. Len(hist) :
        hist[i].opcode \in {40, 64} =>
            /\ FlagsFrom(hist[i].after, PulledStatus(hist[i]))
            /\ hist[i].after.B = Bit(PulledStatus(hist[i]), 4)
            /\ Bit(get_status(hist[i].after), 5) = 1
            /\ Bit(get_status(hist[i].after), 4) = 0

\* PLP pulled a byte with bit 4 set while B was 0
C34_PulledBreakSet ==
    /\ Stepped
    /\ Last.opcode = 40 /\ Last.mid.B = 0
    /\ Bit(PulledStatus(Last), 4) = 1

(***************************************************************************)
(* The vectors after construction (SpecBus)                                *)
(***************************************************************************)
\* the word the memory returns at addr, addr + 1
VectorAt(addr) == Memory_read(Machine, addr) + 256 * Memory_read(Machine, addr + 1)

\* C35: _load_roms completes, and afterwards the memory returns the reset
\* vector $C000 at $FFFC/$FFFD and the IRQ/BRK vector $C036 at $FFFE/$FFFF.
C35_VectorsAfterConstruction ==
    bus.op \in {"load_roms", "load_roms raised"} =>
        /\ bus.op = "load_roms"
        /\ VectorAt(65532) = 49152
        /\ VectorAt(65534) = 49206

\* what _load_roms does: it raises, with no overlay registered and RAM as it
\* was, so both vectors read $0000
C35_LoadRomsRaises ==
    bus.op \in {"load_roms", "load_roms raised"} =>
        /\ bus.op = "load_roms raised"
        /\ roms = <<>>
        /\ ram = bus.pre.ram
        /\ VectorAt(65532) = 0
        /\ VectorAt(65534) = 0

\* _load_roms was called on the memory of a PET under construction
C35_LoadRomsCalled == bus.op \in {"load_roms", "load_roms raised"}

(***************************************************************************)
(* One interrupt and one instruction per step (SpecPrograms)               *)
(***************************************************************************)
\* C36: a step enters at most one interrupt (the NMI when both are pending,
\* the IRQ then staying pending) with three bytes pushed and the vector read
\* before anything else, and then fetches its one opcode at the address the
\* vector gave and executes it in the same call: at least 2 cycles, and for
\* a NOP there nothing but PC one past the vector target.
C36_OneInterruptThenInstruction ==
    \A i \in 1 .. Len(hist) :
        LET h == hist[i] IN
        /\ h.kind = "nmi" =>
              /\ Entered(h, 65530)
              /\ h.mid.irq_pending = h.before.irq_pending
        /\ h.kind = "irq" => Entered(h, 65534) /\ ~h.mid.nmi_pending
        /\ h.kind = "none" => NotEntered(h)
        /\ h.log[h.fetch] = <<"R", h.mid.PC % 65536, h.opcode>>
        /\ h.cycles >= 2
        /\ h.opcode = 234 =>
              /\ Len(h.log) = h.fetch
              /\ h.after = [h.mid EXCEPT !.PC = @ + 1, !.cycles = 2,
                                         !.total_cycles = @ + 2]

\* the NMI was entered with an IRQ pending and I = 0, and the NOP at the NMI
\* handler ran in the same step
C36_NmiOverIrqThenNop ==
    /\ Stepped
    /\ Last.kind = "nmi" /\ Last.before.irq_pending /\ Last.before.I = 0
    /\ Last.opcode = 234 /\ Last.mid.PC = 768 /\ Last.after.PC = 769

\* the IRQ was entered and the PLP at the handler pulled the status just pushed
C36_IrqThenPlp ==
    /\ Stepped
    /\ Last.kind = "irq" /\ Last.opcode = 40
    /\ Last.after.SP = (Last.before.SP - 2) % 256
    /\ Last.after.I = 0

\* C36 as stated: the same, and after a step that entered an interrupt PC
\* lies beyond the vector target
C36_PcBeyondVectorTarget ==
    /\ C36_OneInterruptThenInstruction
    /\ \A i \in 1 .. Len(hist) :
          Serviced(hist[i]) => hist[i].after.PC > hist[i].mid.PC

\* the IRQ was entered and the RTI at the handler went back to the
\* interrupted address, below the vector target
C36_IrqThenRti ==
    /\ Stepped
    /\ Last.kind = "irq" /\ Last.opcode = 64
    /\ Last.mid.PC = 1024 /\ Last.after.PC = Last.before.PC
    /\ Last.after.SP = Last.before.SP

(***************************************************************************)
(* Interrupt entry and RTI (SpecPrograms)                                  *)
(***************************************************************************)
\* step i entered an interrupt and step j ran the RTI of its handler: the
\* same step when the handler starts with RTI, the next one when it starts
\* with a NOP
RoundTrip(i, j) ==
    /\ Serviced(hist[i])
    /\ \/ j = i /\ hist[i].opcode = 64
       \/ /\ j = i + 1 /\ j <= Len(hist)
          /\ hist[i].opcode = 234
          /\ hist[j].kind = "none" /\ hist[j].opcode = 64

\* CPU c has the stack pointer and the flags C, Z, I, D, V, N of CPU f
Restored(c, f) ==
    /\ c.SP = f.SP
    /\ c.C = f.C /\ c.Z = f.Z /\ c.I = f.I /\ c.D = f.D /\ c.V = f.V /\ c.N = f.N

\* C37: an IRQ or NMI entered with program counter p, flags f and stack
\* pointer s, then the RTI of the handler: PC = p, SP = s and C, Z, I, D, V,
\* N are those of f.
C37_InterruptRoundTrip ==
    \A i \in 1 .. Len(hist), j \in 1 .. Len(hist) :
        RoundTrip(i, j) =>
            /\ hist[j].after.PC = hist[i].before.PC
            /\ Restored(hist[j].after, hist[i].before)

\* the round trip with PC compared as a 16-bit address
C37_InterruptRoundTripMod ==
    \A i \in 1 .. Len(hist), j \in 1 .. Len(hist) :
        RoundTrip(i, j) =>
            /\ hist[j].after.PC = hist[i].before.PC % 65536
            /\ Restored(hist[j].after, hist[i].before)

\* an IRQ was entered from $0200 with I = 0 and the RTI went back there
C37_IrqRoundTrip ==
    /\ Stepped
    /\ RoundTrip(Len(hist), Len(hist))
    /\ Last.kind = "irq" /\ Last.before.PC = 512
    /\ Last.after.PC = 512 /\ Last.after.I = 0

\* an NMI was entered with PC = $10000, after the NOP at $FFFF
C37_NmiFromTop ==
    \E i \in 1 .. Len(hist), j \in 1 .. Len(hist) :
        RoundTrip(i, j) /\ hist[i].before.PC = 65536

(***************************************************************************)
(* The cycle count of step (Spec)                                          *)
(***************************************************************************)
\* C38: every call of step returns between 2 and 7 cycles, whatever the
\* opcode byte and the state, and total_cycles grows by the returned count.
C38_StepCycles ==
    \A i \in 1 .. Len(hist) :
        /\ hist[i].cycles \in 2 .. 7
        /\ hist[i].cycles = hist[i].after.cycles
        /\ hist[i].after.total_cycles = hist[i].before.total_cycles + hist[i].cycles

\* a step entered an interrupt, ran a 7-cycle instruction and returned 7,
\* after an earlier step had counted cycles too
C38_SevenAfterEntry ==
    /\ Stepped
    /\ Last.kind # "none"
    /\ Last.cycles = 7
    /\ Last.before.total_cycles > 0
    /\ Last.after.total_cycles = Last.before.total_cycles + 7

\* an opcode outside the table returned 2
C38_IllegalTwo ==
    /\ Stepped
    /\ Last.opcode \notin DOMAIN instructions
    /\ Last.cycles = 2

(***************************************************************************)
(* Ranges of the VIA state and stopped timers (SpecVia)                    *)
(***************************************************************************)
\* update_timers left Timer 1 of call h as it was
Timer1Untouched(h) ==
    /\ h.after.timer1_counter = h.before.timer1_counter
    /\ h.after.timer1_latch = h.before.timer1_latch
    /\ BitAnd(h.after.irq_status, 64) = BitAnd(h.before.irq_status, 64)

\* update_timers left Timer 2 of call h as it was
Timer2Untouched(h) ==
    /\ h.after.timer2_counter = h.before.timer2_counter
    /\ BitAnd(h.after.irq_status, 32) = BitAnd(h.before.irq_status, 32)

\* C39: in every VIA state after writes and update_timers calls the Timer 1
\* counter, the Timer 1 latch and the Timer 2 counter are in 0..65535, IER
\* is in 0..$7F, IFR has no bits other than 5 and 6, and update_timers
\* leaves a timer whose counter is 0 untouched.
C39_ViaRanges ==
    /\ via1.timer1_counter \in 0 .. 65535
    /\ via1.timer1_latch \in 0 .. 65535
    /\ via1.timer2_counter \in 0 .. 65535
    /\ via1.irq_enable \in 0 .. 127
    /\ via1.irq_status \in {0, 32, 64, 96}
    /\ \A i \in 1 .. Len(hist) :
           hist[i].op = "update_timers" =>
               /\ hist[i].before.timer1_counter = 0 => Timer1Untouched(hist[i])
               /\ hist[i].before.timer2_counter = 0 => Timer2Untouched(hist[i])

\* Timer 1 expired with latch 0 and the next update_timers found it stopped
C39_Timer1Stopped ==
    /\ Len(hist) = 2
    /\ hist[1].op = "update_timers" /\ hist[2].op = "update_timers"
    /\ hist[1].before.timer1_counter > 0
    /\ hist[1].before.timer1_latch = 0
    /\ hist[1].after.timer1_counter = 0
    /\ hist[2].after.timer1_counter = 0
    /\ BitAnd(hist[2].after.irq_status, 64) = 64
    /\ ~hist[2].ret

\* a write of $7F to IER cleared the enable bits that were set
C39_EnableCleared ==
    /\ Len(hist) > 0
    /\ hist[Len(hist)].op = "write" /\ hist[Len(hist)].reg = 14
    /\ hist[Len(hist)].before.irq_enable > 0
    /\ via1.irq_enable = 0

====
